---- MODULE Spec2Model ----
(***************************************************************************)
(* chromium-pdf-api: the CDP session multiplexer (cdp.py, CDPSession) and  *)
(* the page-to-PDF orchestration (pdf.py, get_pdf).                        *)
(*                                                                         *)
(* Eleven specifications share this module and its variables.              *)
(*   SpecPdf     several concurrent get_pdf calls under the process-wide   *)
(*               semaphore, each stepping through get_pdf's awaits and its *)
(*               finally block; every await can succeed, raise what the    *)
(*               code raises there, or be cancelled by the caller's        *)
(*               wait_for.                                                 *)
(*   SpecSend    one CDPSession: its receive loop, concurrent callers of   *)
(*               send, one observing subscription, and the browser end of  *)
(*               the websocket transmitting replies and non-JSON text.     *)
(*   SpecSendFair   SpecSend with the resumption of a send whose wait has  *)
(*               something to return weakly fair.                          *)
(*   SpecEvents  one CDPSession: its receive loop, scoped subscriptions    *)
(*               and the browser transmitting events and malformed frames. *)
(*   SpecSub     method_subscription entered and left with any list of     *)
(*               methods, repeated ones included.                          *)
(*   SpecStop    one CDPSession with callers of send awaiting replies and  *)
(*               a caller of disconnect(); the receive task is scheduled   *)
(*               fairly, as the event loop runs every ready task.          *)
(*   SpecSubscribe  consumers of subscribe() polling their queues beside   *)
(*               the receive loop.                                         *)
(*   SpecListener   a FrameRequestListener handed any sequence of          *)
(*               requestWillBeSent and responseReceived events.            *)
(*   SpecOrch    one get_pdf call from Page.navigate to its return, with   *)
(*               its session's receive task, its listener and a browser    *)
(*               answering commands and emitting events.                   *)
(*   SpecOrchFair   SpecOrch with every step of get_pdf, of the receive    *)
(*               task and of the listener weakly fair: the event loop runs *)
(*               each ready task and fires each timer that is due.  The    *)
(*               browser and the caller's timeout are not fair.            *)
(*   SpecArm     the event loop's ready queue between the reply to         *)
(*               Page.getFrameTree and the listener's first step, with the *)
(*               receive task dispatching what the browser emits.          *)
(*                                                                         *)
(* asyncio is taken as in the Python versions cdp.py runs on (it passes    *)
(* loop= to asyncio.Event, gone in 3.10): asyncio.TimeoutError is not the  *)
(* builtin TimeoutError, and a task cancelled before its first step never  *)
(* enters its coroutine.                                                   *)
(*                                                                         *)
(* pdf.py passes a `trace` keyword to CDPSession and FrameRequestListener  *)
(* that cdp.py's constructors do not declare; trace only prefixes log      *)
(* records, so the model takes the constructors to accept it.              *)
(***************************************************************************)
EXTENDS Integers, Sequences, FiniteSets, TLC

(* ------------------------------ bounds -------------------------------- *)

\* concurrent get_pdf calls (SpecPdf)
NumRequests == 2

\* permits of SEMAPHORE: int(env.get("PDF_CONCURRENCY", 10)), scaled down
PDF_CONCURRENCY == 1

\* concurrent callers of CDPSession.send (SpecSend)
NumSenders == 2

\* command ids are drawn from 0..MaxCmdId (randint(0, 1000000000), scaled down)
MaxCmdId == 1

\* scoped subscriptions, each with its own asyncio.Queue (SpecEvents, SpecSub)
NumQueues == 2

\* frames the browser transmits on one websocket (SpecEvents)
MaxFrames == 3

\* frames the browser transmits on one websocket (SpecSend)
MaxReplies == 2

\* longest list of methods handed to method_subscription (SpecSub)
MaxMethods == 3

\* frames the browser transmits on one websocket (SpecStop)
MaxStopFrames == 1

\* events the browser transmits on one websocket (SpecSubscribe)
MaxSubscribeFrames == 2

\* messages a FrameRequestListener is handed (SpecListener)
MaxListenerMsgs == 6

\* DOM.attributeModified events the browser emits during one get_pdf (SpecOrch)
MaxAttrEvents == 2

\* node ids are 1..NumNodes (SpecOrch)
NumNodes == 2

\* frames the browser transmits while the listener is armed and Page.navigate sent
\* (SpecArm)
MaxArmFrames == 3

Requests == 1..NumRequests
Senders == 1..NumSenders
Queues == 1..NumQueues
CmdIds == 0..MaxCmdId

VARIABLES
    \* ---- pdf.py ----
    SEMAPHORE,          \* value (free permits) of the module-level asyncio.Semaphore
    call,               \* per get_pdf call: position, tab, session, what the try block
                        \* ended with, outcome
    closed_tabs,        \* tab ids for which GET /json/close/{id} was issued
    \* ---- cdp.py, one CDPSession ----
    ws,                 \* self._ws: "none" before connect, then "open" or "closed"
    ws_in,              \* text frames the browser has transmitted, not yet returned by recv()
    ws_out,             \* ids of the commands transmitted to the browser
    msg_rx_task,        \* self._msg_rx_task: "none", "created" (not yet run), "pending"
                        \* (suspended in recv), "finished", "failed", "cancelled"
    rx_exception,       \* the exception a failed receive task holds
    listening_stopped,  \* self.listening_stopped.is_set()
    used_cmd_ids,       \* self._used_cmd_ids
    cmd_futures,        \* self._cmd_futures: command id -> the send call owning the future
    response,           \* per send call: the frame its future was resolved with
    method_queues,      \* self._method_queues: method -> set of queues
    queue,              \* contents of each subscription's asyncio.Queue
    sender,             \* per caller of send: position, command id, result
    sub,                \* per scoped subscription: position, methods, events taken
    \* ---- history ----
    rx_log,             \* the frames recv() returned to the receive loop, in order
    n_issued,           \* how many times _new_cmd_id returned
    \* ---- cdp.py, disconnect and subscribe ----
    listening_cancelled,\* self.listening_cancelled.is_set()
    cancel_requested,   \* the receive task has a cancellation it has not yet handled
    disc,               \* the caller of disconnect(): position
    disc_log,           \* what disconnect() has done, in order
    consumer,           \* per subscription: position of a consumer of subscribe()
    \* ---- cdp.py, one FrameRequestListener ----
    frl,                \* _request_id, _response and the state of _update_task
    frl_log,            \* the messages its subscription has yielded to it, in order
    \* ---- pdf.py, one get_pdf call from Page.navigate on, with its session ----
    orch,               \* get_pdf: position, loading_elements, outcome
    chrome,             \* the browser: commands to answer, events emitted, gone or not
    o_ws_in,            \* frames the browser has transmitted, not yet returned by recv()
    o_rx,               \* the receive task: "running", "finished", "failed", "too_big"
    o_future,           \* the future of the command in progress: its method, its reply
    o_queues,           \* the queues of the three subscriptions, and whether registered
    o_hist,             \* commands sent, what Page.navigate's reply was, nodes seen loaded,
                        \* whether a frame over max_size arrived, the caller's timeout expired
    \* ---- pdf.py 93-112 on the event loop: arming the listener, then Page.navigate ----
    loop_ready,         \* the event loop's queue of callbacks ready to run, oldest first
    arm                 \* get_pdf, the listener's task, the receive task, frames under way

pdf_vars == <<SEMAPHORE, call, closed_tabs>>

cdp_vars == <<ws, ws_in, ws_out, msg_rx_task, rx_exception, listening_stopped,
              used_cmd_ids, cmd_futures, response, method_queues, queue, sender,
              sub, rx_log, n_issued>>

stop_vars == <<listening_cancelled, cancel_requested, disc, disc_log, consumer>>

\* What no action of the session changes, and what no action of get_pdf changes.
frl_vars == <<frl, frl_log>>

orch_vars == <<orch, chrome, o_ws_in, o_rx, o_future, o_queues, o_hist>>

arm_vars == <<loop_ready, arm>>

outside_cdp == <<pdf_vars, frl_vars, orch_vars, arm_vars>>
outside_pdf == <<cdp_vars, stop_vars, frl_vars, orch_vars, arm_vars>>
outside_frl == <<pdf_vars, cdp_vars, stop_vars, orch_vars, arm_vars>>
outside_orch == <<pdf_vars, cdp_vars, stop_vars, arm_vars>>
outside_arm == <<pdf_vars, cdp_vars, stop_vars, frl_vars, orch_vars>>

vars == <<pdf_vars, cdp_vars, stop_vars, frl_vars, orch_vars, arm_vars>>

(***************************************************************************)
(* get_pdf (pdf.py 52-277)                                                 *)
(***************************************************************************)

NoTab == 0

\* The awaits of the try block, in program order.
TrySteps ==
    << "connect", "Page.enable", "Network.enable", "Page.getFrameTree",
       "Page.navigate", "wait_load", "wait_status", "DOM.getDocument",
       "DOM.querySelectorAll", "coop_wait", "Page.printToPDF" >>

TryPcs == { TrySteps[i] : i \in 1..Len(TrySteps) }

StepIndex(step) == CHOOSE i \in 1..Len(TrySteps) : TrySteps[i] = step

\* What each await of the try block can raise (other than cancellation).
\* cdp.send raises ReceiveLoopStopped (or the receive task's exception) when the
\* receive loop has ended, and KeyError when the reply has no "result".
SendErrors == {"ReceiveLoopStopped", "KeyError"}

StepErrors(step) ==
    CASE step = "connect"              -> {"ConnectError"}
      [] step = "Page.enable"          -> SendErrors
      [] step = "Network.enable"       -> SendErrors
      [] step = "Page.getFrameTree"    -> SendErrors
      [] step = "Page.navigate"        -> SendErrors
      [] step = "wait_load"            -> {"PageLoadTimeout"}
      [] step = "wait_status"          -> {"StatusTimeout", "ReceiveLoopStopped",
                                           "NavigationError"}
      [] step = "DOM.getDocument"      -> SendErrors \cup {"PageLoadTimeout"}
      [] step = "DOM.querySelectorAll" -> SendErrors \cup {"PageLoadTimeout"}
      [] step = "coop_wait"            -> {"TimeoutError"}
      [] step = "Page.printToPDF"      -> SendErrors \cup {"PDFPrintTimeout"}

\* Positions at which the call holds a permit: inside `async with SEMAPHORE`.
InFlightPcs == {"open_tab"} \cup TryPcs \cup {"ws_close", "tab_close"}

InFlight == { r \in Requests : call[r].pc \in InFlightPcs }

InitCall ==
    [pc |-> "idle", tab_id |-> NoTab, msg_rx_task |-> FALSE,
     pending |-> "none", tried |-> "none", outcome |-> "none", timed_out |-> FALSE]

InitPdf ==
    /\ SEMAPHORE = PDF_CONCURRENCY
    /\ call = [r \in Requests |-> InitCall]
    /\ closed_tabs = {}

\* server.py 93: the handler starts get_pdf under asyncio.wait_for.
GetPdf(r) ==
    /\ call[r].pc = "idle"
    /\ call' = [call EXCEPT ![r].pc = "acquire"]
    /\ UNCHANGED <<SEMAPHORE, closed_tabs>>
    /\ UNCHANGED outside_pdf

\* asyncio.Semaphore.acquire: proceeds only while the value is positive.
AcquireNoCheck == TRUE
CanAcquire == SEMAPHORE > 0

\* pdf.py 73-76: `async with SEMAPHORE:` entered, CDPSession built, GET /json/new sent.
Acquire(r) ==
    /\ call[r].pc = "acquire"
    /\ CanAcquire
    /\ SEMAPHORE' = SEMAPHORE - 1
    /\ call' = [call EXCEPT ![r].pc = "open_tab"]
    /\ UNCHANGED closed_tabs
    /\ UNCHANGED outside_pdf

\* Leaving `async with SEMAPHORE` (pdf.py 73): __aexit__ releases the permit whatever
\* ends the block.
ReleaseOnlyOnSuccess(out) == IF out = "pdf" THEN SEMAPHORE + 1 ELSE SEMAPHORE
Released(out) == SEMAPHORE + 1

\* get_pdf ends with `out` (the returned PDF or the raised exception), permit released.
Exit(r, out) ==
    /\ call' = [call EXCEPT ![r].pc = "done", ![r].outcome = out, ![r].pending = "none"]
    /\ SEMAPHORE' = Released(out)

\* pdf.py 75-78: the browser answers /json/new; tab_id is read from the reply.
OpenTab(r) ==
    /\ call[r].pc = "open_tab"
    /\ call' = [call EXCEPT ![r].pc = "connect", ![r].tab_id = r]
    /\ UNCHANGED <<SEMAPHORE, closed_tabs>>
    /\ UNCHANGED outside_pdf

\* pdf.py 75-78: the HTTP request fails; this is before the try block.
OpenTabFails(r) ==
    /\ call[r].pc = "open_tab"
    /\ Exit(r, "HttpError")
    /\ UNCHANGED closed_tabs
    /\ UNCHANGED outside_pdf

\* pdf.py 272-273 with cdp.py 199-201: the finally block starts with
\* cdp.disconnect(), whose first statement is self._msg_rx_task.cancel().  The task
\* is None unless connect() completed, and None.cancel() raises AttributeError out of
\* the finally block.  Otherwise the call is now awaiting self._ws.close().
EnterFinally(r, out) ==
    IF call[r].msg_rx_task
    THEN /\ call' = [call EXCEPT ![r].pc = "ws_close", ![r].pending = out,
                                 ![r].tried = out]
         /\ UNCHANGED SEMAPHORE
    ELSE /\ call' = [call EXCEPT ![r].pc = "done", ![r].outcome = "AttributeError",
                                 ![r].pending = "none", ![r].tried = out]
         /\ SEMAPHORE' = Released("AttributeError")

\* One await of the try block completes (pdf.py 82-270).  connect() sets
\* _msg_rx_task (cdp.py 121-123); an empty nodeIds skips the cooperative wait
\* (pdf.py 206-207); the reply to Page.printToPDF is returned (pdf.py 270).
StepOk(r) ==
    /\ call[r].pc \in TryPcs
    /\ LET step == call[r].pc
           i == StepIndex(step)
       IN  CASE step = "connect" ->
                    /\ call' = [call EXCEPT ![r].pc = TrySteps[i + 1],
                                            ![r].msg_rx_task = TRUE]
                    /\ UNCHANGED SEMAPHORE
             [] step = "DOM.querySelectorAll" ->
                    /\ \E coop \in BOOLEAN :
                          call' = [call EXCEPT ![r].pc =
                                     IF coop THEN "coop_wait" ELSE "Page.printToPDF"]
                    /\ UNCHANGED SEMAPHORE
             [] step = "Page.printToPDF" -> EnterFinally(r, "pdf")
             [] OTHER ->
                    /\ call' = [call EXCEPT ![r].pc = TrySteps[i + 1]]
                    /\ UNCHANGED SEMAPHORE
    /\ UNCHANGED closed_tabs
    /\ UNCHANGED outside_pdf

\* One await of the try block raises (pdf.py 82-270): control passes to finally.
StepFails(r) ==
    /\ call[r].pc \in TryPcs
    /\ \E e \in StepErrors(call[r].pc) : EnterFinally(r, e)
    /\ UNCHANGED closed_tabs
    /\ UNCHANGED outside_pdf

\* cdp.py 201 then pdf.py 274-275: the websocket close completes and
\* GET /json/close/{tab_id} is sent.
WsClosed(r) ==
    /\ call[r].pc = "ws_close"
    /\ call' = [call EXCEPT ![r].pc = "tab_close"]
    /\ closed_tabs' = closed_tabs \cup {call[r].tab_id}
    /\ UNCHANGED SEMAPHORE
    /\ UNCHANGED outside_pdf

\* pdf.py 275-277: the reply to /json/close is read; get_pdf ends with what the try
\* block produced.
TabClosed(r) ==
    /\ call[r].pc = "tab_close"
    /\ Exit(r, call[r].pending)
    /\ UNCHANGED closed_tabs
    /\ UNCHANGED outside_pdf

\* pdf.py 274-276: the /json/close request fails; the exception leaves the finally
\* block in place of the pending one.
TabCloseFails(r) ==
    /\ call[r].pc = "tab_close"
    /\ Exit(r, "HttpError")
    /\ UNCHANGED closed_tabs
    /\ UNCHANGED outside_pdf

\* server.py 93: wait_for's timeout cancels get_pdf once, at the await it is
\* suspended in.  In the try block CancelledError runs the finally block; while
\* waiting for the permit, for /json/new or inside the finally block it ends the call.
Timeout(r) ==
    /\ ~call[r].timed_out
    /\ call[r].pc \in {"acquire"} \cup InFlightPcs
    /\ LET c == [call EXCEPT ![r].timed_out = TRUE]
       IN  CASE call[r].pc = "acquire" ->
                    /\ call' = [c EXCEPT ![r].pc = "done", ![r].outcome = "CancelledError"]
                    /\ UNCHANGED SEMAPHORE
             [] call[r].pc \in TryPcs /\ call[r].msg_rx_task ->
                    /\ call' = [c EXCEPT ![r].pc = "ws_close",
                                         ![r].pending = "CancelledError",
                                         ![r].tried = "CancelledError"]
                    /\ UNCHANGED SEMAPHORE
             [] call[r].pc \in TryPcs /\ ~call[r].msg_rx_task ->
                    /\ call' = [c EXCEPT ![r].pc = "done", ![r].outcome = "AttributeError",
                                         ![r].pending = "none",
                                         ![r].tried = "CancelledError"]
                    /\ SEMAPHORE' = Released("AttributeError")
             [] OTHER ->
                    /\ call' = [c EXCEPT ![r].pc = "done", ![r].outcome = "CancelledError",
                                         ![r].pending = "none"]
                    /\ SEMAPHORE' = Released("CancelledError")
    /\ UNCHANGED closed_tabs
    /\ UNCHANGED outside_pdf

NextPdf ==
    \E r \in Requests :
        \/ GetPdf(r)
        \/ Acquire(r)
        \/ OpenTab(r)
        \/ OpenTabFails(r)
        \/ StepOk(r)
        \/ StepFails(r)
        \/ WsClosed(r)
        \/ TabClosed(r)
        \/ TabCloseFails(r)
        \/ Timeout(r)

(***************************************************************************)
(* CDPSession (cdp.py 91-201)                                              *)
(***************************************************************************)

NoId == -1          \* data.get("id") is None
NoMethod == "None"  \* data.get("method") is None
NoResult == 0       \* the frame has no "result" member
NoSender == 0
NoFrame == <<>>

\* Event methods the browser emits, and the wildcard a subscription may name.
Methods == {"A", "B"}
Wildcard == "*"

\* A text frame on the wire.  json is what json.loads makes of it: "text" does not
\* parse, "value" parses to a list or a scalar, "object" parses to a dict whose
\* members are id, method and result.  seq numbers the frames in transmission order;
\* a result, when present, is a value no other frame carries.
Frame(n, j, i, m, r) == [seq |-> n, json |-> j, id |-> i, method |-> m, result |-> r]

\* The frames a browser may transmit as its n-th, by class: unparseable text, a
\* non-object JSON value, an event, or a reply (with a result or, without one, an
\* error) to a command it has received, which may also carry a method.
BrowserFrames(n, classes) ==
    { f \in { Frame(n, "text", NoId, NoMethod, NoResult),
              Frame(n, "value", NoId, NoMethod, NoResult) } : f.json \in classes }
    \cup { Frame(n, "object", NoId, m, NoResult) : m \in
             IF "event" \in classes THEN Methods ELSE {} }
    \cup { Frame(n, "object", i, m, r) :
             i \in IF "reply" \in classes THEN ws_out ELSE {},
             m \in {NoMethod, "A"}, r \in {n, NoResult} }

(* ------------------------ FrameRequestListener ------------------------- *)

NoRequest == "None"     \* self._request_id is None
NoResponse == [status |-> 0, url |-> "None"]    \* self._response is None
TargetFrame == "F"      \* self._frame_id
FrameIds == {TargetFrame, "G"}
RequestIds == {"r1", "r2"}

\* The events its subscription carries (cdp.py 63-65), as far as the listener reads
\* them: method, params.frameId, params.requestId, params.response.  n identifies the
\* response object.
ListenerMsgs(n) ==
    { [method |-> "Network.requestWillBeSent", frameId |-> f, requestId |-> r,
       response |-> NoResponse] : f \in FrameIds, r \in RequestIds }
    \cup { [method |-> "Network.responseReceived", frameId |-> NoRequest,
            requestId |-> r, response |-> [status |-> n, url |-> "u"]] :
              r \in RequestIds }

\* cdp.py 31-37: FrameRequestListener.__init__
InitFrl ==
    /\ frl = [request_id |-> NoRequest, response |-> NoResponse, task |-> "pending",
              result |-> NoResponse]
    /\ frl_log = <<>>

\* cdp.py 66-88, with the request id replaced by every matching requestWillBeSent.
FrlKeepLatest(st, msg) ==
    IF msg.method = "Network.requestWillBeSent" /\ msg.frameId = TargetFrame
    THEN [st EXCEPT !.request_id = msg.requestId]
    ELSE IF /\ st.response = NoResponse
            /\ msg.method = "Network.responseReceived"
            /\ msg.requestId = st.request_id
         THEN [st EXCEPT !.response = msg.response, !.task = "finished",
                         !.result = msg.response]
         ELSE st

\* cdp.py 66-88: the body of the `async for` for one message.
FrlBody(st, msg) ==
    IF /\ st.request_id = NoRequest
       /\ msg.method = "Network.requestWillBeSent"
       /\ msg.frameId = TargetFrame
    THEN [st EXCEPT !.request_id = msg.requestId]
    ELSE IF /\ st.response = NoResponse
            /\ msg.method = "Network.responseReceived"
            /\ msg.requestId = st.request_id
         THEN [st EXCEPT !.response = msg.response, !.task = "finished",
                         !.result = msg.response]
         ELSE st

\* cdp.py 63-88: subscribe() yields the next event and the loop body runs on it.
FrlMsg ==
    /\ frl.task = "pending"
    /\ Len(frl_log) < MaxListenerMsgs
    /\ \E msg \in ListenerMsgs(Len(frl_log) + 1) :
          /\ frl' = FrlBody(frl, msg)
          /\ frl_log' = Append(frl_log, msg)
    /\ UNCHANGED outside_frl

\* cdp.py 63 and 193: subscribe() raises ReceiveLoopStopped, which ends the task.
FrlStopped ==
    /\ frl.task = "pending"
    /\ frl' = [frl EXCEPT !.task = "failed"]
    /\ UNCHANGED frl_log
    /\ UNCHANGED outside_frl

InitSender ==
    [pc |-> "idle", cmd_id |-> NoId, await_response |-> FALSE,
     ret |-> NoResult, exc |-> "none"]

InitSub == [pc |-> "closed", methods |-> <<>>, got |-> <<>>, opened_at |-> 0,
            closed_at |-> 0, exc |-> "none"]

\* cdp.py 92-100: CDPSession.__init__
InitCdp ==
    /\ ws = "none"
    /\ ws_in = <<>>
    /\ ws_out = {}
    /\ msg_rx_task = "none"
    /\ rx_exception = "none"
    /\ listening_stopped = FALSE
    /\ used_cmd_ids = {}
    /\ cmd_futures = <<>>
    /\ response = [s \in Senders |-> NoFrame]
    /\ method_queues = <<>>
    /\ queue = [q \in Queues |-> <<>>]
    /\ sender = [s \in Senders |-> InitSender]
    /\ sub = [q \in Queues |-> InitSub]
    /\ rx_log = <<>>
    /\ n_issued = 0

\* cdp.py 94: listening_cancelled is created unset; nobody has called disconnect()
\* or subscribe().
InitStop ==
    /\ listening_cancelled = FALSE
    /\ cancel_requested = FALSE
    /\ disc = "idle"
    /\ disc_log = <<>>
    /\ consumer = [q \in Queues |-> "check"]

\* cdp.py 121-123: the websocket is connected and the receive task created; the
\* event loop has yet to run the task's first step.
connect ==
    /\ ws = "none"
    /\ ws' = "open"
    /\ msg_rx_task' = "created"
    /\ UNCHANGED <<ws_in, ws_out, rx_exception, listening_stopped, used_cmd_ids,
                   cmd_futures, response, method_queues, queue, sender, sub, rx_log,
                   n_issued>>
    /\ UNCHANGED <<outside_cdp, stop_vars>>

(* ------------------------- the browser's end --------------------------- *)

\* The browser transmits one more frame of one of the given classes, up to max frames.
BrowserSend(classes, max) ==
    /\ ws = "open"
    /\ Len(rx_log) + Len(ws_in) < max
    /\ \E f \in BrowserFrames(Len(rx_log) + Len(ws_in) + 1, classes) :
          ws_in' = Append(ws_in, f)
    /\ UNCHANGED <<ws, ws_out, msg_rx_task, rx_exception, listening_stopped,
                   used_cmd_ids, cmd_futures, response, method_queues, queue, sender,
                   sub, rx_log, n_issued>>
    /\ UNCHANGED <<outside_cdp, stop_vars>>

BrowserClose ==
    /\ ws = "open"
    /\ ws' = "closed"
    /\ UNCHANGED <<ws_in, ws_out, msg_rx_task, rx_exception, listening_stopped,
                   used_cmd_ids, cmd_futures, response, method_queues, queue, sender,
                   sub, rx_log, n_issued>>
    /\ UNCHANGED <<outside_cdp, stop_vars>>

(* ---------------------------- subscriptions ---------------------------- *)

\* self._method_queues.get(method, [])
QueuesOf(method) ==
    IF method \in DOMAIN method_queues THEN method_queues[method] ELSE {}

\* cdp.py 174-178: add_method_queue
add_method_queue(mq, method, q) ==
    IF method \in DOMAIN mq
    THEN [mq EXCEPT ![method] = @ \cup {q}]
    ELSE mq @@ (method :> {q})

\* cdp.py 180-184: remove_method_queue; both the lookup and set.remove raise KeyError.
remove_method_queue_raises(mq, method, q) ==
    method \notin DOMAIN mq \/ q \notin mq[method]

remove_method_queue(mq, method, q) ==
    IF mq[method] = {q}
    THEN [m \in DOMAIN mq \ {method} |-> mq[m]]
    ELSE [mq EXCEPT ![method] = @ \ {q}]

\* cdp.py 114-115: for method in methods: self.add_method_queue(method, queue)
RECURSIVE AddAll(_, _, _)
AddAll(mq, methods, q) ==
    IF methods = <<>> THEN mq
    ELSE AddAll(add_method_queue(mq, Head(methods), q), Tail(methods), q)

\* cdp.py 118-119: for method in methods: self.remove_method_queue(method, queue);
\* the first KeyError ends the loop and leaves the scope.
RECURSIVE RemoveAll(_, _, _)
RemoveAll(mq, methods, q) ==
    IF methods = <<>> THEN [mq |-> mq, exc |-> "none"]
    ELSE IF remove_method_queue_raises(mq, Head(methods), q)
         THEN [mq |-> mq, exc |-> "KeyError"]
         ELSE RemoveAll(remove_method_queue(mq, Head(methods), q), Tail(methods), q)

\* cdp.py 110-116: a `with method_subscription(methods)` block is entered.
SubEnter(q, methods) ==
    /\ sub[q].pc = "closed"
    /\ method_queues' = AddAll(method_queues, methods, q)
    /\ sub' = [sub EXCEPT ![q].pc = "open", ![q].methods = methods,
                          ![q].opened_at = Len(rx_log)]
    /\ UNCHANGED <<ws, ws_in, ws_out, msg_rx_task, rx_exception, listening_stopped,
                   used_cmd_ids, cmd_futures, response, queue, sender, rx_log,
                   n_issued>>
    /\ UNCHANGED <<outside_cdp, stop_vars>>

\* cdp.py 117-119: the block is left, by its end, by an exception or by cancellation.
SubExit(q) ==
    /\ sub[q].pc = "open"
    /\ LET r == RemoveAll(method_queues, sub[q].methods, q)
       IN  /\ method_queues' = r.mq
           /\ sub' = [sub EXCEPT ![q].pc = "left", ![q].exc = r.exc,
                                 ![q].closed_at = Len(rx_log)]
    /\ UNCHANGED <<ws, ws_in, ws_out, msg_rx_task, rx_exception, listening_stopped,
                   used_cmd_ids, cmd_futures, response, queue, sender, rx_log,
                   n_issued>>
    /\ UNCHANGED <<outside_cdp, stop_vars>>

\* asyncio.Queue.get_nowait: the oldest item.
QueueFront(items) == Head(items)

\* cdp.py 197 / tests.py 227: the holder of the queue takes the next event from it.
SubGet(q) ==
    /\ sub[q].pc = "open"
    /\ queue[q] # <<>>
    /\ sub' = [sub EXCEPT ![q].got = Append(@, QueueFront(queue[q]))]
    /\ queue' = [queue EXCEPT ![q] = Tail(@)]
    /\ UNCHANGED <<ws, ws_in, ws_out, msg_rx_task, rx_exception, listening_stopped,
                   used_cmd_ids, cmd_futures, response, method_queues, sender, rx_log,
                   n_issued>>
    /\ UNCHANGED <<outside_cdp, stop_vars>>

(* --------------------------- the receive loop -------------------------- *)

\* asyncio.Queue.put_nowait: the item goes to the back of the queue.
put_front(items, data) == <<data>> \o items
put_nowait(items, data) == Append(items, data)

\* cdp.py 136-139: the frame is put on every queue registered for its method, then on
\* every queue registered for "*".
FanOutMethodOnly(data) ==
    [q \in Queues |->
        IF q \in QueuesOf(data.method) THEN put_nowait(queue[q], data) ELSE queue[q]]
FanOut(data) ==
    [q \in Queues |->
        LET first == IF q \in QueuesOf(data.method)
                     THEN put_nowait(queue[q], data) ELSE queue[q]
        IN  IF q \in QueuesOf(Wildcard) THEN put_nowait(first, data) ELSE first]

\* cdp.py 133: self._cmd_futures[cmd_id]; KeyError when there is no such key.
SlotOfAny(cmd_id) ==
    IF DOMAIN cmd_futures # {} THEN cmd_futures[CHOOSE k \in DOMAIN cmd_futures : TRUE]
    ELSE NoSender
SlotOf(cmd_id) ==
    IF cmd_id \in DOMAIN cmd_futures THEN cmd_futures[cmd_id] ELSE NoSender

\* cdp.py 140-143: an exception other than CancelledError and ConnectionClosed leaves
\* the loop; the finally clause sets listening_stopped and the task ends with it.
RxRaises(e) ==
    /\ msg_rx_task' = "failed"
    /\ rx_exception' = e
    /\ listening_stopped' = TRUE
    /\ UNCHANGED <<response, queue>>

\* cdp.py 125-128: the event loop runs the task's first step; the coroutine enters its
\* try block and suspends in recv().
RxStart ==
    /\ msg_rx_task = "created"
    /\ ~cancel_requested
    /\ msg_rx_task' = "pending"
    /\ UNCHANGED <<ws, ws_in, ws_out, rx_exception, listening_stopped, used_cmd_ids,
                   cmd_futures, response, method_queues, queue, sender, sub, rx_log,
                   n_issued>>
    /\ UNCHANGED <<outside_cdp, stop_vars>>

\* cdp.py 128-139: one turn of the loop.  recv() returns the oldest frame; json.loads
\* raises JSONDecodeError on text that is not JSON; data.get raises AttributeError on
\* a value that is not a dict; set_result raises InvalidStateError on a future that
\* already has a result.
RxRecv ==
    /\ msg_rx_task = "pending"
    /\ ~cancel_requested
    /\ ws_in # <<>>
    /\ LET data == Head(ws_in)
           s == SlotOf(data.id)
       IN  /\ ws_in' = Tail(ws_in)
           /\ rx_log' = Append(rx_log, data)
           /\ CASE data.json = "text" -> RxRaises("JSONDecodeError")
                [] data.json = "value" -> RxRaises("AttributeError")
                [] data.json = "object" /\ s # NoSender /\ response[s] # NoFrame ->
                       RxRaises("InvalidStateError")
                [] OTHER ->
                       /\ response' = IF s # NoSender
                                      THEN [response EXCEPT ![s] = data]
                                      ELSE response
                       /\ queue' = FanOut(data)
                       /\ UNCHANGED <<msg_rx_task, rx_exception, listening_stopped>>
    /\ UNCHANGED <<ws, ws_out, used_cmd_ids, cmd_futures, method_queues, sender, sub,
                   n_issued>>
    /\ UNCHANGED <<outside_cdp, stop_vars>>

\* cdp.py 128, 140-143: recv() raises ConnectionClosed once the connection is closed
\* and every buffered frame was returned; the loop ends and listening_stopped is set.
RxConnectionClosed ==
    /\ msg_rx_task = "pending"
    /\ ~cancel_requested
    /\ ws = "closed"
    /\ ws_in = <<>>
    /\ msg_rx_task' = "finished"
    /\ listening_stopped' = TRUE
    /\ UNCHANGED <<ws, ws_in, ws_out, rx_exception, used_cmd_ids, cmd_futures,
                   response, method_queues, queue, sender, sub, rx_log, n_issued>>
    /\ UNCHANGED <<outside_cdp, stop_vars>>

(* -------------------------------- send --------------------------------- *)

\* cdp.py 102-108: the ids _new_cmd_id may return: drawn at random, drawn again while
\* the draw is in _used_cmd_ids.
AnyCmdIds == CmdIds
NewCmdIds == CmdIds \ used_cmd_ids

\* cdp.py 172 left out: the entry stays.
KeepFuture(cf, cmd_id) == cf

\* cdp.py 172: del self._cmd_futures[cmd_id]
DelFuture(cf, cmd_id) == [k \in DOMAIN cf \ {cmd_id} |-> cf[k]]

\* cdp.py 145-153: send() takes a command id, registers its future when a response
\* is awaited, and starts writing the frame.
SendCall(s, await_response) ==
    /\ sender[s].pc \in {"idle", "returned", "raised"}
    /\ ws # "none"
    /\ n_issued <= MaxCmdId
    /\ \E cid \in NewCmdIds :
          /\ used_cmd_ids' = used_cmd_ids \cup {cid}
          /\ cmd_futures' =
                IF await_response
                THEN [k \in DOMAIN cmd_futures \cup {cid} |->
                         IF k = cid THEN s ELSE cmd_futures[k]]
                ELSE cmd_futures
          /\ sender' = [sender EXCEPT ![s] =
                [pc |-> "ws_send", cmd_id |-> cid, await_response |-> await_response,
                 ret |-> NoResult, exc |-> "none"]]
    /\ response' = [response EXCEPT ![s] = NoFrame]
    /\ n_issued' = n_issued + 1
    /\ UNCHANGED <<ws, ws_in, ws_out, msg_rx_task, rx_exception, listening_stopped,
                   method_queues, queue, sub, rx_log>>
    /\ UNCHANGED <<outside_cdp, stop_vars>>

\* cdp.py 170-172: the finally clause of send.
SendEnds(s, pc, ret, exc) ==
    LET registered == sender[s].cmd_id \in DOMAIN cmd_futures
    IN  /\ cmd_futures' = IF sender[s].await_response
                          THEN DelFuture(cmd_futures, sender[s].cmd_id)
                          ELSE cmd_futures
        /\ sender' = [sender EXCEPT ![s] =
              IF sender[s].await_response /\ ~registered
              THEN [@ EXCEPT !.pc = "raised", !.ret = NoResult, !.exc = "KeyError"]
              ELSE [@ EXCEPT !.pc = pc, !.ret = ret, !.exc = exc]]

\* cdp.py 153-155: the write completes (the browser has the command), or raises
\* ConnectionClosed on a closed connection.  Without await_response send returns None.
WsSend(s) ==
    /\ sender[s].pc = "ws_send"
    /\ IF ws = "open"
       THEN /\ ws_out' = ws_out \cup {sender[s].cmd_id}
            /\ IF sender[s].await_response
               THEN /\ sender' = [sender EXCEPT ![s].pc = "wait"]
                    /\ UNCHANGED cmd_futures
               ELSE SendEnds(s, "returned", NoResult, "none")
       ELSE /\ SendEnds(s, "raised", NoResult, "ConnectionClosed")
            /\ UNCHANGED ws_out
    /\ UNCHANGED <<ws, ws_in, msg_rx_task, rx_exception, listening_stopped,
                   used_cmd_ids, response, method_queues, queue, sub, rx_log, n_issued>>
    /\ UNCHANGED <<outside_cdp, stop_vars>>

\* asyncio.Task.done(): the task returned, raised or was cancelled.
TaskDone == msg_rx_task \in {"finished", "failed", "cancelled"}

\* cdp.py 165-169: Task.exception() raises CancelledError on a cancelled task and
\* returns the exception of a task that raised, which send re-raises; on a task that
\* returned it gives None and send raises ReceiveLoopStopped.
TaskException ==
    CASE msg_rx_task = "cancelled" -> "CancelledError"
      [] msg_rx_task = "failed" -> rx_exception
      [] OTHER -> "ReceiveLoopStopped"

\* cdp.py 159-169: asyncio.wait returns once the future or the receive task is done.
\* A resolved future wins: its frame's "result" is returned (KeyError without one);
\* otherwise the task's exception is raised, or ReceiveLoopStopped.
SendWake(s) ==
    /\ sender[s].pc = "wait"
    /\ response[s] # NoFrame \/ TaskDone
    /\ IF response[s] # NoFrame
       THEN IF response[s].result # NoResult
            THEN SendEnds(s, "returned", response[s].result, "none")
            ELSE SendEnds(s, "raised", NoResult, "KeyError")
       ELSE SendEnds(s, "raised", NoResult, TaskException)
    /\ UNCHANGED <<ws, ws_in, ws_out, msg_rx_task, rx_exception, listening_stopped,
                   used_cmd_ids, response, method_queues, queue, sub, rx_log, n_issued>>
    /\ UNCHANGED <<outside_cdp, stop_vars>>

\* cdp.py 151-172: the caller's task is cancelled (a wait_for around send() expired,
\* or get_pdf was cancelled) while send() is suspended in the write or in
\* asyncio.wait; CancelledError passes through the finally clause.
SendCancelled(s) ==
    /\ sender[s].pc \in {"ws_send", "wait"}
    /\ SendEnds(s, "raised", NoResult, "CancelledError")
    /\ UNCHANGED <<ws, ws_in, ws_out, msg_rx_task, rx_exception, listening_stopped,
                   used_cmd_ids, response, method_queues, queue, sub, rx_log, n_issued>>
    /\ UNCHANGED <<outside_cdp, stop_vars>>

(* ------------------------------ disconnect ----------------------------- *)

cdp_but_task == <<ws_in, ws_out, rx_exception, used_cmd_ids, cmd_futures, response,
                  method_queues, queue, sender, sub, rx_log, n_issued>>

\* cdp.py 199-201: disconnect() up to its await.  self._msg_rx_task.cancel() raises
\* AttributeError while the task is None; on a task that is done it does nothing;
\* otherwise the task is to get CancelledError at its next step.  Then
\* self._ws.close() is started.  listening_cancelled is not touched.
Disconnect ==
    /\ disc = "idle"
    /\ IF msg_rx_task = "none"
       THEN /\ disc' = "raised"
            /\ UNCHANGED <<cancel_requested, disc_log>>
       ELSE /\ disc' = "ws_close"
            /\ cancel_requested' = (cancel_requested \/ ~TaskDone)
            /\ disc_log' = disc_log \o <<"cancel", "close">>
    /\ UNCHANGED <<listening_cancelled, consumer>>
    /\ UNCHANGED <<ws, msg_rx_task, listening_stopped>>
    /\ UNCHANGED cdp_but_task
    /\ UNCHANGED outside_cdp

\* cdp.py 201: the closing handshake ends and disconnect() returns.
DisconnectDone ==
    /\ disc = "ws_close"
    /\ disc' = "returned"
    /\ disc_log' = Append(disc_log, "closed")
    /\ ws' = "closed"
    /\ UNCHANGED <<listening_cancelled, cancel_requested, consumer>>
    /\ UNCHANGED <<msg_rx_task, listening_stopped>>
    /\ UNCHANGED cdp_but_task
    /\ UNCHANGED outside_cdp

\* The receive task's next step after cancel().  A task that has not run yet is
\* cancelled without entering the coroutine, so neither the except clause nor the
\* finally clause of cdp.py 140-143 runs; a task suspended in recv() gets
\* CancelledError there, which the except clause swallows: finally sets
\* listening_stopped and the task returns.
RxCancelled ==
    /\ cancel_requested
    /\ msg_rx_task \in {"created", "pending"}
    /\ cancel_requested' = FALSE
    /\ IF msg_rx_task = "created"
       THEN /\ msg_rx_task' = "cancelled"
            /\ UNCHANGED listening_stopped
       ELSE /\ msg_rx_task' = "finished"
            /\ listening_stopped' = TRUE
    /\ UNCHANGED <<listening_cancelled, disc, disc_log, consumer>>
    /\ UNCHANGED ws
    /\ UNCHANGED cdp_but_task
    /\ UNCHANGED outside_cdp

(* ------------------------------ subscribe ------------------------------ *)

\* cdp.py 188, 193 and 117-119: the consumer asks for the next event and the generator
\* is at the head of its loop.  With listening_stopped set it raises
\* ReceiveLoopStopped, which leaves the method_subscription block (a KeyError of the
\* removal replaces it); otherwise it goes on to wait for the queue.
SubscribeCheck(q) ==
    /\ sub[q].pc = "open"
    /\ consumer[q] = "check"
    /\ IF listening_stopped
       THEN LET r == RemoveAll(method_queues, sub[q].methods, q)
            IN  /\ method_queues' = r.mq
                /\ sub' = [sub EXCEPT ![q].pc = "left", ![q].closed_at = Len(rx_log),
                                      ![q].exc = IF r.exc = "none"
                                                 THEN "ReceiveLoopStopped" ELSE r.exc]
                /\ consumer' = [consumer EXCEPT ![q] = "raised"]
       ELSE /\ consumer' = [consumer EXCEPT ![q] = "get"]
            /\ UNCHANGED <<method_queues, sub>>
    /\ UNCHANGED <<ws, ws_in, ws_out, msg_rx_task, rx_exception, listening_stopped,
                   used_cmd_ids, cmd_futures, response, queue, sender, rx_log,
                   n_issued>>
    /\ UNCHANGED <<listening_cancelled, cancel_requested, disc, disc_log>>
    /\ UNCHANGED outside_cdp

\* cdp.py 190: queue.get() returns the oldest event, which the generator yields; the
\* consumer handles it and asks for the next.
SubscribeGet(q) ==
    /\ sub[q].pc = "open"
    /\ consumer[q] = "get"
    /\ queue[q] # <<>>
    /\ sub' = [sub EXCEPT ![q].got = Append(@, QueueFront(queue[q]))]
    /\ queue' = [queue EXCEPT ![q] = Tail(@)]
    /\ consumer' = [consumer EXCEPT ![q] = "check"]
    /\ UNCHANGED <<ws, ws_in, ws_out, msg_rx_task, rx_exception, listening_stopped,
                   used_cmd_ids, cmd_futures, response, method_queues, sender, rx_log,
                   n_issued>>
    /\ UNCHANGED <<listening_cancelled, cancel_requested, disc, disc_log>>
    /\ UNCHANGED outside_cdp

\* cdp.py 190-192: a second passes with the queue empty; wait_for raises
\* asyncio.TimeoutError and the loop continues.
SubscribeTimeout(q) ==
    /\ sub[q].pc = "open"
    /\ consumer[q] = "get"
    /\ queue[q] = <<>>
    /\ consumer' = [consumer EXCEPT ![q] = "check"]
    /\ UNCHANGED cdp_vars
    /\ UNCHANGED <<listening_cancelled, cancel_requested, disc, disc_log>>
    /\ UNCHANGED outside_cdp

(* ----------------- get_pdf from Page.navigate on (pdf.py) -------------- *)

Range(seq) == { seq[i] : i \in DOMAIN seq }

Nodes == 1..NumNodes
PageUrl == "http://page"        \* data["url"]
ResponseUrl == "http://moved"   \* response["url"], where the navigation ended
Statuses == {199, 200, 299, 300, 304, 404}
LoadedEvent == "Page.loadEventFired"
PdfData == "D"

\* The decimal digits of n, most significant first: str(n) for n >= 0.
RECURSIVE Digits(_)
Digits(n) == IF n < 10 THEN <<n>> ELSE Append(Digits(n \div 10), n % 10)

\* pdf.py 160-161 with the test made on the number's hundreds only.
StatusFailsByClass(code) == code \div 100 # 2

\* pdf.py 160-161: not status.startswith("2") and status != "304"
StatusFails(code) == Head(Digits(code)) # 2 /\ Digits(code) # <<3, 0, 4>>

\* A frame of this conversation, with every member the code reads.  A reply carries
\* the method of the command it answers in place of its id; a reply of kind "big" is
\* longer than the max_size the websocket was connected with (pdf.py 82-84).
OFrame ==
    [kind |-> "event", method |-> "None", errorText |-> FALSE, nodeIds |-> {},
     frameId |-> "None", requestId |-> "None", response |-> NoResponse,
     nodeId |-> 0, name |-> "None", value |-> "None"]

ReplyFrames(c) ==
    LET r == [OFrame EXCEPT !.kind = "reply", !.method = c] IN
    CASE c = "Page.navigate" -> { [r EXCEPT !.errorText = b] : b \in BOOLEAN }
      [] c = "DOM.querySelectorAll" -> { [r EXCEPT !.nodeIds = ns] : ns \in SUBSET Nodes }
      [] c = "Page.printToPDF" -> { [r EXCEPT !.value = PdfData],
                                    [r EXCEPT !.value = PdfData, !.kind = "big"] }
      [] OTHER -> { r }

\* The events of a navigation, in the order the browser produces them: the request
\* (of the main frame or of another), its response, the loaded event.
StageFrames(stage) ==
    CASE stage = 0 ->
           { [OFrame EXCEPT !.method = "Network.requestWillBeSent",
                            !.frameId = fr, !.requestId = "r1"] : fr \in FrameIds }
      [] stage = 1 ->
           { [OFrame EXCEPT !.method = "Network.responseReceived", !.requestId = "r1",
                            !.response = [status |-> code, url |-> ResponseUrl]] :
               code \in Statuses }
      [] OTHER -> { [OFrame EXCEPT !.method = LoadedEvent] }

AttrFrames ==
    { [OFrame EXCEPT !.method = "DOM.attributeModified", !.nodeId = n,
                     !.name = nv[1], !.value = nv[2]] :
        n \in Nodes,
        nv \in {<<"value", "loaded">>, <<"value", "loading">>, <<"class", "loaded">>} }

TextFrame == [OFrame EXCEPT !.kind = "text"]

NoError == [url |-> "None", code |-> 0]

\* pdf.py 98-109: the session is connected and its receive task running, the
\* listener's subscription and the DOM.attributeModified subscription are open, and
\* Page.navigate is about to be sent.
InitOrch ==
    /\ orch = [pc |-> "send", cmd |-> "Page.navigate", loading_elements |-> {},
               outcome |-> "none", error |-> NoError, data |-> "None"]
    /\ chrome = [pending |-> {}, stage |-> 0, frame |-> "None", attrs |-> 0,
                 text |-> FALSE, gone |-> "no"]
    /\ o_ws_in = <<>>
    /\ o_rx = "running"
    /\ o_future = [cmd |-> "None", done |-> FALSE, reply |-> OFrame]
    /\ o_queues = [loaded |-> [open |-> FALSE, items |-> <<>>],
                   attrib |-> [open |-> TRUE, items |-> <<>>],
                   frl |-> [open |-> TRUE, items |-> <<>>, pc |-> "check"]]
    /\ o_hist = [sent |-> <<>>, reply_first |-> FALSE, error_text |-> FALSE,
                 matched |-> {}, too_big |-> FALSE, outer |-> FALSE]

Running == orch.pc # "done"

\* Nothing more can reach a queue or a future: the receive task has ended, or the
\* browser has gone quiet and every frame it transmitted has been received.  The
\* timeouts of get_pdf are long next to a browser at work, so they expire only then.
Silent == o_rx # "running" \/ (o_ws_in = <<>> /\ chrome.gone # "no")

Emit(f) == o_ws_in' = Append(o_ws_in, f)

\* The browser answers a command it has received.
ChromeReply ==
    /\ Running /\ chrome.gone = "no"
    /\ \E c \in chrome.pending : \E f \in ReplyFrames(c) :
          /\ Emit(f)
          /\ chrome' = [chrome EXCEPT !.pending = @ \ {c}]
          /\ o_hist' = IF c = "Page.navigate"
                       THEN [o_hist EXCEPT !.reply_first = (chrome.stage = 0),
                                           !.error_text = f.errorText]
                       ELSE o_hist
    /\ UNCHANGED <<orch, o_rx, o_future, o_queues, frl_vars>>
    /\ UNCHANGED outside_orch

\* The browser reports the main document's next event.
ChromeEvent ==
    /\ Running /\ chrome.gone = "no"
    /\ "Page.navigate" \in Range(o_hist.sent)
    /\ chrome.stage < 3
    /\ \E f \in StageFrames(chrome.stage) :
          /\ Emit(f)
          /\ chrome' = [chrome EXCEPT !.stage = @ + 1,
                          !.frame = IF chrome.stage = 0 THEN f.frameId ELSE @]
    /\ UNCHANGED <<orch, o_rx, o_future, o_queues, o_hist, frl_vars>>
    /\ UNCHANGED outside_orch

\* A script of the page changes an attribute, after the browser has answered
\* DOM.querySelectorAll: the elements it reported still had the value "loading".
ChromeAttr ==
    /\ Running /\ chrome.gone = "no"
    /\ "DOM.querySelectorAll" \in Range(o_hist.sent) \ chrome.pending
    /\ chrome.attrs < MaxAttrEvents
    /\ \E f \in AttrFrames : Emit(f)
    /\ chrome' = [chrome EXCEPT !.attrs = @ + 1]
    /\ UNCHANGED <<orch, o_rx, o_future, o_queues, o_hist, frl_vars>>
    /\ UNCHANGED outside_orch

\* The browser transmits a frame that is not JSON.
ChromeText ==
    /\ Running /\ chrome.gone = "no"
    /\ ~chrome.text
    /\ Emit(TextFrame)
    /\ chrome' = [chrome EXCEPT !.text = TRUE]
    /\ UNCHANGED <<orch, o_rx, o_future, o_queues, o_hist, frl_vars>>
    /\ UNCHANGED outside_orch

\* The browser stops answering, or closes the connection.
ChromeGone ==
    /\ Running /\ chrome.gone = "no"
    /\ \E g \in {"stalled", "closed"} : chrome' = [chrome EXCEPT !.gone = g]
    /\ UNCHANGED <<orch, o_ws_in, o_rx, o_future, o_queues, o_hist, frl_vars>>
    /\ UNCHANGED outside_orch

\* cdp.py 110-119: the subscriptions get_pdf itself entered are left when it ends.
\* The listener's belongs to the listener's task, which get_pdf's end does not end.
Unsubscribed ==
    [o_queues EXCEPT !.loaded.open = FALSE, !.attrib.open = FALSE]

\* An exception leaves get_pdf (pdf.py 272-277: the session is disconnected and the
\* tab closed on the way out).
Raise(exc, err) ==
    /\ orch' = [orch EXCEPT !.pc = "done", !.outcome = exc, !.error = err]
    /\ o_queues' = Unsubscribed

\* cdp.py 127-139: one turn of the receive loop on this call's subscriptions.  A frame
\* over max_size is not returned by recv(): the websocket fails the connection, and
\* recv() raises ConnectionClosed, which ends the loop quietly (cdp.py 140-141), or,
\* should the library let it through, its own PayloadTooBig.
OrchRx ==
    /\ Running /\ o_rx = "running"
    /\ o_ws_in # <<>>
    /\ LET f == Head(o_ws_in)
           put(q) == IF q.open THEN [q EXCEPT !.items = Append(@, f)] ELSE q
       IN  /\ o_ws_in' = Tail(o_ws_in)
           /\ CASE f.kind = "text" ->
                    /\ o_rx' = "failed"
                    /\ UNCHANGED <<o_future, o_queues, chrome, o_hist>>
                [] f.kind = "big" ->
                    /\ o_rx' \in {"finished", "too_big"}
                    /\ chrome' = [chrome EXCEPT !.gone = "closed"]
                    /\ o_hist' = [o_hist EXCEPT !.too_big = TRUE]
                    /\ UNCHANGED <<o_future, o_queues>>
                [] OTHER ->
                    /\ o_rx' = o_rx
                    /\ o_future' =
                         IF f.kind = "reply" /\ o_future.cmd = f.method /\ ~o_future.done
                         THEN [o_future EXCEPT !.done = TRUE, !.reply = f]
                         ELSE o_future
                    /\ o_queues' =
                         CASE f.kind = "reply" -> o_queues
                           [] f.method = LoadedEvent ->
                                [o_queues EXCEPT !.loaded = put(@)]
                           [] f.method = "DOM.attributeModified" ->
                                [o_queues EXCEPT !.attrib = put(@)]
                           [] OTHER -> [o_queues EXCEPT !.frl = put(@)]
                    /\ UNCHANGED <<chrome, o_hist>>
    /\ UNCHANGED <<orch, frl_vars>>
    /\ UNCHANGED outside_orch

\* cdp.py 127 and 140-143: recv() raises ConnectionClosed once the buffered frames
\* have been returned.
OrchRxClosed ==
    /\ Running /\ o_rx = "running"
    /\ o_ws_in = <<>> /\ chrome.gone = "closed"
    /\ o_rx' = "finished"
    /\ UNCHANGED <<orch, chrome, o_ws_in, o_future, o_queues, o_hist, frl_vars>>
    /\ UNCHANGED outside_orch

\* cdp.py 189 and 193: the listener's subscribe() tests listening_stopped.
OrchFrlCheck ==
    /\ Running /\ frl.task = "pending" /\ o_queues.frl.pc = "check"
    /\ IF o_rx # "running"
       THEN /\ frl' = [frl EXCEPT !.task = "failed"]
            /\ o_queues' = [o_queues EXCEPT !.frl.open = FALSE]
       ELSE /\ o_queues' = [o_queues EXCEPT !.frl.pc = "get"]
            /\ UNCHANGED frl
    /\ UNCHANGED <<orch, chrome, o_ws_in, o_rx, o_future, o_hist, frl_log>>
    /\ UNCHANGED outside_orch

\* cdp.py 191 and 66-88: subscribe() yields an event to the listener.  When the
\* listener returns its response (cdp.py 88) the generator is left suspended at its
\* yield, inside method_subscription.
OrchFrlGet ==
    /\ Running /\ frl.task = "pending" /\ o_queues.frl.pc = "get"
    /\ o_queues.frl.items # <<>>
    /\ frl' = FrlBody(frl, Head(o_queues.frl.items))
    /\ frl_log' = Append(frl_log, Head(o_queues.frl.items))
    /\ o_queues' = [o_queues EXCEPT !.frl.items = Tail(@), !.frl.pc = "check"]
    /\ UNCHANGED <<orch, chrome, o_ws_in, o_rx, o_future, o_hist>>
    /\ UNCHANGED outside_orch

\* cdp.py 186-187 and 110-119: the abandoned generator is finalized (the event loop
\* closes it once it has been collected), which leaves method_subscription.
OrchFrlAclose ==
    /\ Running /\ frl.task = "finished" /\ o_queues.frl.open
    /\ o_queues' = [o_queues EXCEPT !.frl.open = FALSE]
    /\ UNCHANGED <<orch, chrome, o_ws_in, o_rx, o_future, o_hist, frl_vars>>
    /\ UNCHANGED outside_orch

\* cdp.py 191-193: a second without an event.
OrchFrlTimeout ==
    /\ Running /\ frl.task = "pending" /\ o_queues.frl.pc = "get"
    /\ o_queues.frl.items = <<>>
    /\ o_queues' = [o_queues EXCEPT !.frl.pc = "check"]
    /\ UNCHANGED <<orch, chrome, o_ws_in, o_rx, o_future, o_hist, frl_vars>>
    /\ UNCHANGED outside_orch

\* cdp.py 145-153: send() registers the future and transmits the command; on a closed
\* websocket the transmission raises and the future is removed.
OrchSend ==
    /\ orch.pc = "send"
    /\ IF chrome.gone = "closed"
       THEN /\ Raise("ConnectionClosed", NoError)
            /\ UNCHANGED <<chrome, o_future, o_hist>>
       ELSE /\ orch' = [orch EXCEPT !.pc = "wait"]
            /\ chrome' = [chrome EXCEPT !.pending = @ \cup {orch.cmd}]
            /\ o_future' = [cmd |-> orch.cmd, done |-> FALSE, reply |-> OFrame]
            /\ o_hist' = [o_hist EXCEPT !.sent = Append(@, orch.cmd)]
            /\ UNCHANGED o_queues
    /\ UNCHANGED <<o_ws_in, o_rx, frl_vars>>
    /\ UNCHANGED outside_orch

\* cdp.py 156-172 and the statements of get_pdf after each command: send() returns
\* the reply's result, or raises what ended the receive task.
OrchWake ==
    /\ orch.pc = "wait"
    /\ o_future.done \/ o_rx # "running"
    /\ o_future' = [o_future EXCEPT !.cmd = "None"]
    /\ IF ~o_future.done
       THEN Raise(CASE o_rx = "failed" -> "JSONDecodeError"
                    [] o_rx = "too_big" -> "websockets.PayloadTooBig"
                    [] OTHER -> "ReceiveLoopStopped",
                  NoError)
       ELSE CASE orch.cmd = "Page.navigate" ->
                   \* pdf.py 113-118: nav_resp is the reply's result, which has no
                   \* member "result": KeyError, whatever errorText says
                   /\ orch' = [orch EXCEPT !.pc = "load_subscribe"]
                   /\ UNCHANGED o_queues
              [] orch.cmd = "DOM.getDocument" ->
                   /\ orch' = [orch EXCEPT !.pc = "send", !.cmd = "DOM.querySelectorAll"]
                   /\ UNCHANGED o_queues
              [] orch.cmd = "DOM.querySelectorAll" ->
                   \* pdf.py 206-207 and 255-256
                   IF o_future.reply.nodeIds # {}
                   THEN /\ orch' = [orch EXCEPT !.pc = "coop_check",
                                      !.loading_elements = o_future.reply.nodeIds]
                        /\ UNCHANGED o_queues
                   ELSE /\ orch' = [orch EXCEPT !.pc = "send", !.cmd = "Page.printToPDF"]
                        /\ o_queues' = [o_queues EXCEPT !.attrib.open = FALSE]
              [] OTHER ->
                   \* pdf.py 270: return pdf_resp["data"]
                   /\ orch' = [orch EXCEPT !.pc = "done", !.outcome = "pdf",
                                           !.data = o_future.reply.value]
                   /\ o_queues' = Unsubscribed
    /\ UNCHANGED <<chrome, o_ws_in, o_rx, o_hist, frl_vars>>
    /\ UNCHANGED outside_orch

\* pdf.py 170-181, 187-204, 263-268: the command's wait_for expires.  Page.navigate
\* is awaited without one (pdf.py 110).
OrchSendTimeout ==
    /\ orch.pc = "wait" /\ orch.cmd # "Page.navigate"
    /\ ~o_future.done /\ o_rx = "running" /\ Silent
    /\ Raise(IF orch.cmd = "Page.printToPDF" THEN "PDFPrintTimeout" ELSE "PageLoadTimeout",
             NoError)
    /\ o_future' = [o_future EXCEPT !.cmd = "None"]
    /\ UNCHANGED <<chrome, o_ws_in, o_rx, o_hist, frl_vars>>
    /\ UNCHANGED outside_orch

\* pdf.py 130-132 and cdp.py 195-196: the task wait_for() starts for
\* cdp.wait_for(loaded_event) takes its first step and subscribes.
OrchLoadSubscribe ==
    /\ orch.pc = "load_subscribe"
    /\ orch' = [orch EXCEPT !.pc = "load_get"]
    /\ o_queues' = [o_queues EXCEPT !.loaded.open = TRUE]
    /\ UNCHANGED <<chrome, o_ws_in, o_rx, o_future, o_hist, frl_vars>>
    /\ UNCHANGED outside_orch

\* cdp.py 197 and pdf.py 136: the loaded event is taken from the queue.
OrchLoaded ==
    /\ orch.pc = "load_get"
    /\ o_queues.loaded.items # <<>>
    /\ orch' = [orch EXCEPT !.pc = "status"]
    /\ o_queues' = [o_queues EXCEPT !.loaded = [open |-> FALSE, items |-> <<>>]]
    /\ UNCHANGED <<chrome, o_ws_in, o_rx, o_future, o_hist, frl_vars>>
    /\ UNCHANGED outside_orch

\* pdf.py 133-135: load_timeout expires.
OrchLoadTimeout ==
    /\ orch.pc = "load_get"
    /\ o_queues.loaded.items = <<>> /\ Silent
    /\ Raise("PageLoadTimeout", NoError)
    /\ UNCHANGED <<chrome, o_ws_in, o_rx, o_future, o_hist, frl_vars>>
    /\ UNCHANGED outside_orch

\* pdf.py 146-166: the listener's task has ended; its response's status is tested.
OrchStatus ==
    /\ orch.pc = "status"
    /\ frl.task # "pending"
    /\ IF frl.task = "failed"
       THEN Raise("ReceiveLoopStopped", NoError)
       ELSE IF StatusFails(frl.result.status)
            THEN Raise("NavigationError",
                       [url |-> frl.result.url, code |-> frl.result.status])
            ELSE /\ orch' = [orch EXCEPT !.pc = "send", !.cmd = "DOM.getDocument"]
                 /\ UNCHANGED o_queues
    /\ UNCHANGED <<chrome, o_ws_in, o_rx, o_future, o_hist, frl_vars>>
    /\ UNCHANGED outside_orch

\* pdf.py 150-152: status_timeout expires; wait_for cancels the listener's task,
\* which leaves subscribe() and its method_subscription, and raises.
OrchStatusTimeout ==
    /\ orch.pc = "status"
    /\ frl.task = "pending" /\ o_queues.frl.items = <<>> /\ Silent
    /\ o_rx = "running"
    /\ orch' = [orch EXCEPT !.pc = "done", !.outcome = "StatusTimeout"]
    /\ o_queues' = [Unsubscribed EXCEPT !.frl.open = FALSE]
    /\ frl' = [frl EXCEPT !.task = "cancelled"]
    /\ UNCHANGED <<chrome, o_ws_in, o_rx, o_future, o_hist, frl_log>>
    /\ UNCHANGED outside_orch

\* pdf.py 213-215 and 263: the test of the cooperative-loading loop; leaving the loop
\* leaves the subscription and goes on to print.
OrchCoopCheck ==
    /\ orch.pc = "coop_check"
    /\ IF /\ orch.loading_elements # {}
          /\ (o_rx = "running" \/ o_queues.attrib.items # <<>>)
       THEN /\ orch' = [orch EXCEPT !.pc = "coop_get"]
            /\ UNCHANGED o_queues
       ELSE /\ orch' = [orch EXCEPT !.pc = "send", !.cmd = "Page.printToPDF"]
            /\ o_queues' = [o_queues EXCEPT !.attrib.open = FALSE]
    /\ UNCHANGED <<chrome, o_ws_in, o_rx, o_future, o_hist, frl_vars>>
    /\ UNCHANGED outside_orch

\* pdf.py 229-252: which events take their node out of loading_elements.
Loads(m, loading) == m.nodeId \in loading /\ m.name = "value" /\ m.value = "loaded"

\* pdf.py 216-252: one DOM.attributeModified event is taken and examined.
OrchCoopGet ==
    /\ orch.pc = "coop_get"
    /\ o_queues.attrib.items # <<>>
    /\ LET m == Head(o_queues.attrib.items) IN
          /\ orch' = [orch EXCEPT !.pc = "coop_check",
                        !.loading_elements =
                            IF Loads(m, @) THEN @ \ {m.nodeId} ELSE @]
          /\ o_hist' = [o_hist EXCEPT !.matched =
                          IF m.name = "value" /\ m.value = "loaded"
                          THEN @ \cup {m.nodeId} ELSE @]
    /\ o_queues' = [o_queues EXCEPT !.attrib.items = Tail(@)]
    /\ UNCHANGED <<chrome, o_ws_in, o_rx, o_future, frl_vars>>
    /\ UNCHANGED outside_orch

\* pdf.py 217-227: load_timeout expires in the loop; wait_for raises
\* asyncio.TimeoutError, which `except TimeoutError` does not name.
OrchCoopTimeout ==
    /\ orch.pc = "coop_get"
    /\ o_queues.attrib.items = <<>> /\ Silent
    /\ Raise("asyncio.TimeoutError", NoError)
    /\ UNCHANGED <<chrome, o_ws_in, o_rx, o_future, o_hist, frl_vars>>
    /\ UNCHANGED outside_orch

\* get_pdf is suspended and nothing it waits for has happened yet.
Suspended ==
    \/ orch.pc = "wait" /\ ~o_future.done /\ o_rx = "running"
    \/ orch.pc = "load_get" /\ o_queues.loaded.items = <<>>
    \/ orch.pc = "status" /\ frl.task = "pending"
    \/ orch.pc = "coop_get" /\ o_queues.attrib.items = <<>>

\* server.py 93: the handler's wait_for expires; it cancels get_pdf, whose finally
\* block runs, and raises asyncio.TimeoutError in the handler.
OrchOuterTimeout ==
    /\ Suspended /\ Silent
    /\ Raise("asyncio.TimeoutError", NoError)
    /\ o_hist' = [o_hist EXCEPT !.outer = TRUE]
    /\ UNCHANGED <<chrome, o_ws_in, o_rx, o_future, frl_vars>>
    /\ UNCHANGED outside_orch

\* server.py 92-106: what the handler answers for the way get_pdf ended.  An
\* exception the handler does not name leaves it, and aiohttp answers 500.
HttpResponse ==
    CASE orch.outcome = "pdf" ->
           [status |-> 200, failed_url |-> "None", status_code |-> 0,
            pdf |-> orch.data]
      [] orch.outcome \in {"PageLoadTimeout", "StatusTimeout", "PDFPrintTimeout"} ->
           [status |-> 504, failed_url |-> "None", status_code |-> 0, pdf |-> "None"]
      [] orch.outcome = "cdp.PayloadTooBig" ->
           [status |-> 413, failed_url |-> "None", status_code |-> 0, pdf |-> "None"]
      [] orch.outcome = "NavigationError" ->
           [status |-> 424,
            failed_url |-> IF orch.error.url # "None" THEN orch.error.url ELSE PageUrl,
            status_code |-> orch.error.code, pdf |-> "None"]
      [] OTHER ->
           [status |-> 500, failed_url |-> "None", status_code |-> 0, pdf |-> "None"]

(* --------- arming the listener before Page.navigate (pdf.py 93-112) ----- *)

\* asyncio's call_soon, which create_task and the wake-up of a task go through: the
\* callback joins the ready queue behind those already there.
call_soon(rdy, h) == Append(rdy, h)

\* A task object made without scheduling its first step.
create_unscheduled(rdy, h) == rdy

\* cdp.py 37: self._loop.create_task(self._get_frame_updates())
create_task(rdy, h) == call_soon(rdy, h)

\* pdf.py 88-89: get_pdf is suspended in send("Page.getFrameTree").
InitArm ==
    /\ loop_ready = <<>>
    /\ arm = [get_pdf |-> "Page.getFrameTree", early |-> "none", listener |-> "none",
              registered |-> FALSE, navigate_sent |-> FALSE, socket |-> <<>>,
              messages |-> <<>>, emitted |-> 0, request_emitted |-> FALSE,
              queue |-> <<>>, dropped |-> <<>>]

\* cdp.py 127-139 and 159-163: the reply to Page.getFrameTree has resolved the future
\* and get_pdf's wake-up is queued.  The browser may already have sent another event
\* (the Page and Network domains are enabled): it is in the socket, or read into the
\* websocket's buffer with the receive task's wake-up queued before or behind
\* get_pdf's.
ArmReply ==
    /\ arm.get_pdf = "Page.getFrameTree"
    /\ \E early \in {"none", "socket", "buffer_first", "buffer_last"} :
          /\ loop_ready' = CASE early = "buffer_first" -> <<"rx", "get_pdf">>
                              [] early = "buffer_last" -> <<"get_pdf", "rx">>
                              [] OTHER -> <<"get_pdf">>
          /\ arm' = [arm EXCEPT
                       !.get_pdf = "created", !.early = early,
                       !.socket = IF early = "socket" THEN <<"other">> ELSE <<>>,
                       !.messages = IF early \in {"buffer_first", "buffer_last"}
                                    THEN <<"other">> ELSE <<>>,
                       !.emitted = IF early = "none" THEN 0 ELSE 1]
    /\ UNCHANGED outside_arm

\* pdf.py 95-112 with cdp.py 31-37 and 145-153: get_pdf runs from the reply to
\* Page.getFrameTree to its next suspension: it makes the listener, whose __init__
\* creates the task, and sends Page.navigate.
ArmGetPdf ==
    /\ loop_ready # <<>> /\ Head(loop_ready) = "get_pdf"
    /\ arm.get_pdf = "created"
    /\ loop_ready' = create_task(Tail(loop_ready), "listener")
    /\ arm' = [arm EXCEPT !.get_pdf = "awaiting", !.listener = "created",
                          !.navigate_sent = TRUE]
    /\ UNCHANGED outside_arm

\* cdp.py 63-65, 186-191 and 110-115: the first step of the listener's task enters
\* subscribe(), which registers the queue and suspends in queue.get().
ArmListener ==
    /\ loop_ready # <<>> /\ Head(loop_ready) = "listener"
    /\ loop_ready' = Tail(loop_ready)
    /\ arm' = [arm EXCEPT !.listener = "subscribed", !.registered = TRUE]
    /\ UNCHANGED outside_arm

\* The browser transmits an event: the main frame's Network.requestWillBeSent, once
\* and only in reaction to Page.navigate, or any other event.
ArmBrowser ==
    /\ arm.get_pdf # "Page.getFrameTree"
    /\ arm.emitted < MaxArmFrames
    /\ \E f \in {"other"} \cup
                 (IF arm.navigate_sent /\ ~arm.request_emitted
                  THEN {"Network.requestWillBeSent"} ELSE {}) :
          arm' = [arm EXCEPT !.socket = Append(@, f), !.emitted = @ + 1,
                             !.request_emitted = (@ \/ f # "other")]
    /\ UNCHANGED loop_ready
    /\ UNCHANGED outside_arm

\* The event loop's selector reports the socket readable: the transport's read
\* callback joins the ready queue.
ArmPoll ==
    /\ arm.socket # <<>>
    /\ "read" \notin Range(loop_ready)
    /\ loop_ready' = call_soon(loop_ready, "read")
    /\ UNCHANGED arm
    /\ UNCHANGED outside_arm

\* The websocket reads what the socket holds into its buffer of messages and wakes
\* the task suspended in recv() (cdp.py 127).
ArmRead ==
    /\ loop_ready # <<>> /\ Head(loop_ready) = "read"
    /\ arm' = [arm EXCEPT !.socket = <<>>, !.messages = @ \o arm.socket]
    /\ loop_ready' = IF "rx" \in Range(loop_ready) \/ arm.socket = <<>>
                     THEN Tail(loop_ready)
                     ELSE call_soon(Tail(loop_ready), "rx")
    /\ UNCHANGED outside_arm

\* cdp.py 127-139: the receive task runs: recv() returns the buffered messages one
\* after the other without suspending, and each goes to the listener's queue when it
\* is registered under the method; then recv() suspends.
ArmRx ==
    /\ loop_ready # <<>> /\ Head(loop_ready) = "rx"
    /\ loop_ready' = Tail(loop_ready)
    /\ LET wanted == SelectSeq(arm.messages,
                                LAMBDA f : f = "Network.requestWillBeSent")
       IN  arm' = [arm EXCEPT !.messages = <<>>,
                         !.queue = IF arm.registered THEN @ \o wanted ELSE @,
                         !.dropped = IF arm.registered THEN @ ELSE @ \o wanted]
    /\ UNCHANGED outside_arm

(* --------------------------- specifications ---------------------------- *)

Init == InitPdf /\ InitCdp /\ InitStop /\ InitFrl /\ InitOrch /\ InitArm

RECURSIVE SeqsUpTo(_, _)
SeqsUpTo(S, n) ==
    IF n = 0 THEN {<<>>}
    ELSE LET shorter == SeqsUpTo(S, n - 1)
         IN  shorter \cup { Append(l, x) : l \in shorter, x \in S }

\* Lists handed to method_subscription.  SpecSub draws every non-empty list of up to
\* MaxMethods entries; SpecEvents the lists of one or two distinct methods, in one
\* order (add and remove treat the entries of such a list alike); SpecSend has one
\* observer subscribed to an event method or to everything.
AllLists == SeqsUpTo(Methods \cup {Wildcard}, MaxMethods) \ {<<>>}
EventLists == { <<"A">>, <<"B">>, <<Wildcard>>, <<"A", "B">>, <<"A", Wildcard>>,
                <<"B", Wildcard>> }
ObserverLists == { <<"A">>, <<Wildcard>> }
Observer == CHOOSE q \in Queues : \A p \in Queues : q <= p

\* One session with callers of send, the browser answering them in any order, with
\* any reply, and one observer of the event stream.
NextSend ==
    \/ connect
    \/ BrowserSend({"text", "reply"}, MaxReplies)
    \/ BrowserClose
    \/ RxStart
    \/ RxRecv
    \/ RxConnectionClosed
    \/ \E s \in Senders : \E a \in BOOLEAN : SendCall(s, a)
    \/ \E s \in Senders : WsSend(s)
    \/ \E s \in Senders : SendWake(s)
    \/ \E s \in Senders : SendCancelled(s)
    \/ \E l \in ObserverLists : SubEnter(Observer, l)
    \/ SubGet(Observer)
    \/ SubExit(Observer)

SpecSend == Init /\ [][NextSend]_vars

\* SpecSend with the event loop resuming a send whose asyncio.wait (cdp.py 159-161)
\* has a completed future or task to return.
SpecSendFair ==
    Init /\ [][NextSend]_vars /\ \A s \in Senders : WF_vars(SendWake(s))

\* One session with scoped subscriptions and the browser emitting events and
\* malformed frames.
NextEvents ==
    \/ connect
    \/ BrowserSend({"text", "value", "event"}, MaxFrames)
    \/ BrowserClose
    \/ RxStart
    \/ RxRecv
    \/ RxConnectionClosed
    \/ \E q \in Queues : \E l \in EventLists : SubEnter(q, l)
    \/ \E q \in Queues : SubGet(q)
    \/ \E q \in Queues : SubExit(q)

SpecEvents == Init /\ [][NextEvents]_vars

\* Scoped subscriptions alone, over every list of methods.
NextSub ==
    \/ \E q \in Queues : \E l \in AllLists : SubEnter(q, l)
    \/ \E q \in Queues : SubExit(q)

SpecSub == Init /\ [][NextSub]_vars

\* Concurrent get_pdf calls.
SpecPdf == Init /\ [][NextPdf]_vars

\* One session with callers of send awaiting replies, a caller of disconnect() at any
\* moment, and the browser replying, sending text that is not JSON, or closing.
NextStop ==
    \/ connect
    \/ BrowserSend({"text", "reply"}, MaxStopFrames)
    \/ BrowserClose
    \/ RxStart
    \/ RxRecv
    \/ RxConnectionClosed
    \/ RxCancelled
    \/ \E s \in Senders : SendCall(s, TRUE)
    \/ \E s \in Senders : WsSend(s)
    \/ \E s \in Senders : SendWake(s)
    \/ Disconnect
    \/ DisconnectDone

\* The event loop runs every task that is ready: the receive task's steps, the resuming
\* of a send, the end of a closing handshake.  Nothing obliges the browser to transmit
\* or a caller to call.
FairStop ==
    /\ WF_vars(RxStart)
    /\ WF_vars(RxRecv)
    /\ WF_vars(RxConnectionClosed)
    /\ WF_vars(RxCancelled)
    /\ WF_vars(DisconnectDone)
    /\ \A s \in Senders : WF_vars(WsSend(s)) /\ WF_vars(SendWake(s))

SpecStop == Init /\ [][NextStop]_vars /\ FairStop

\* One FrameRequestListener and any sequence of the events it subscribes to.
NextListener ==
    \/ FrlMsg
    \/ FrlStopped

SpecListener == Init /\ [][NextListener]_vars

\* One get_pdf call from Page.navigate to its return, with the browser, the receive
\* task and the listener's task.
NextOrch ==
    \/ ChromeReply \/ ChromeEvent \/ ChromeAttr \/ ChromeText \/ ChromeGone
    \/ OrchRx \/ OrchRxClosed
    \/ OrchFrlCheck \/ OrchFrlGet \/ OrchFrlTimeout \/ OrchFrlAclose
    \/ OrchSend \/ OrchWake \/ OrchSendTimeout
    \/ OrchLoadSubscribe \/ OrchLoaded \/ OrchLoadTimeout
    \/ OrchStatus \/ OrchStatusTimeout
    \/ OrchCoopCheck \/ OrchCoopGet \/ OrchCoopTimeout
    \/ OrchOuterTimeout

SpecOrch == Init /\ [][NextOrch]_vars

\* The event loop runs every task that is ready and fires every timer that is due;
\* nothing obliges the browser to transmit.
FairOrch ==
    /\ WF_vars(OrchRx) /\ WF_vars(OrchRxClosed)
    /\ WF_vars(OrchFrlCheck) /\ WF_vars(OrchFrlGet) /\ WF_vars(OrchFrlTimeout)
    /\ WF_vars(OrchFrlAclose)
    /\ WF_vars(OrchSend) /\ WF_vars(OrchWake) /\ WF_vars(OrchSendTimeout)
    /\ WF_vars(OrchLoadSubscribe) /\ WF_vars(OrchLoaded) /\ WF_vars(OrchLoadTimeout)
    /\ WF_vars(OrchStatus) /\ WF_vars(OrchStatusTimeout)
    /\ WF_vars(OrchCoopCheck) /\ WF_vars(OrchCoopGet) /\ WF_vars(OrchCoopTimeout)

SpecOrchFair == Init /\ [][NextOrch]_vars /\ FairOrch

\* The event loop around the arming of the listener and the sending of Page.navigate.
NextArm ==
    \/ ArmReply \/ ArmGetPdf \/ ArmListener \/ ArmBrowser \/ ArmPoll \/ ArmRead
    \/ ArmRx

SpecArm == Init /\ [][NextArm]_vars

\* Lists handed to subscribe().
SubscribeLists == { <<"A">>, <<"A", "B">>, <<Wildcard>> }

\* One session with consumers of subscribe() and the browser emitting events or
\* closing.
NextSubscribe ==
    \/ connect
    \/ BrowserSend({"event"}, MaxSubscribeFrames)
    \/ BrowserClose
    \/ RxStart
    \/ RxRecv
    \/ RxConnectionClosed
    \/ \E q \in Queues : \E l \in SubscribeLists : SubEnter(q, l)
    \/ \E q \in Queues : SubscribeCheck(q)
    \/ \E q \in Queues : SubscribeGet(q)
    \/ \E q \in Queues : SubscribeTimeout(q)

SpecSubscribe == Init /\ [][NextSubscribe]_vars

(***************************************************************************)
(* Properties                                                              *)
(***************************************************************************)

Done(r) == call[r].pc = "done"

\* C1: every get_pdf call that obtained a tab id and then ended, with a PDF or with
\* an error raised at a later step (websocket connect failure, a failing command, a
\* navigation error, an inner timeout, receive loop stopped), has had
\* GET /json/close/{id} issued for that id.  Calls cancelled by the caller's timeout
\* are left aside here.
C1_TabClosedOnEveryExit ==
    \A r \in Requests :
        (Done(r) /\ call[r].tab_id # NoTab /\ ~call[r].timed_out)
            => call[r].tab_id \in closed_tabs

\* C2: the number of get_pdf calls past the semaphore acquire and not yet past its
\* release never exceeds PDF_CONCURRENCY.
C2_InFlightAtMostConcurrency == Cardinality(InFlight) <= PDF_CONCURRENCY

C2_Witness ==
    /\ Cardinality(InFlight) = PDF_CONCURRENCY
    /\ \E r \in Requests : call[r].pc = "acquire"

\* C3: every permit taken is given back on every exit path: the free permits are
\* PDF_CONCURRENCY less the calls in flight, so with no call in flight all
\* PDF_CONCURRENCY permits are free and a waiting call can take one.
C3_PermitReleasedOnEveryExit ==
    /\ SEMAPHORE = PDF_CONCURRENCY - Cardinality(InFlight)
    /\ InFlight = {} => SEMAPHORE = PDF_CONCURRENCY
    /\ (InFlight = {} /\ \E r \in Requests : call[r].pc = "acquire") => CanAcquire

C3_Witness ==
    /\ \A r \in Requests : Done(r)
    /\ \E r1, r2 \in Requests :
          /\ r1 # r2
          /\ call[r1].outcome = "CancelledError" /\ call[r1].tab_id # NoTab
          /\ call[r2].outcome \in {"PageLoadTimeout", "NavigationError",
                                   "ReceiveLoopStopped", "AttributeError"}

Returned(s) == sender[s].pc = "returned" /\ sender[s].await_response

\* C4: a send that awaited its response and returned, returned the result of a frame
\* the receive loop received with this send's command id, and of no frame with
\* another id.
C4_SendReturnsOwnReply ==
    \A s \in Senders :
        Returned(s) =>
            /\ \E i \in 1..Len(rx_log) :
                  /\ rx_log[i].id = sender[s].cmd_id
                  /\ rx_log[i].result = sender[s].ret
            /\ \A i \in 1..Len(rx_log) :
                  rx_log[i].result = sender[s].ret => rx_log[i].id = sender[s].cmd_id

\* Two sends awaited together and the replies came in the order opposite to the
\* senders': the second frame answered one, while the other, answered by the first
\* frame, had not yet resumed.
C4_Witness ==
    \E s, t \in Senders :
        /\ s # t
        /\ Returned(s) /\ Len(rx_log) = 2 /\ sender[s].ret = rx_log[2].result
        /\ sender[t].pc = "wait" /\ response[t] # NoFrame /\ response[t].seq = 1

\* The receive loop took a frame from the websocket in this step.
RxStep == rx_log' # rx_log

\* C5: a frame that is not a JSON object (unparseable text, or a JSON list or
\* scalar) does not end the receive loop: listening_stopped is not set by it.
C5_NonObjectFrameTolerated ==
    [][ (RxStep /\ Head(ws_in).json # "object") => ~listening_stopped' ]_vars

MethodsOf(q) == { sub[q].methods[i] : i \in 1..Len(sub[q].methods) }

\* C6: while a scope is open its queue is in the directory entry of each method it
\* listed; after the scope is left the queue is in no entry; and no method is a key
\* of the directory without a queue.
C6_SubscriptionHygiene ==
    /\ \A q \in Queues :
          /\ sub[q].pc = "open" => \A m \in MethodsOf(q) : q \in QueuesOf(m)
          /\ sub[q].pc = "left" => \A m \in DOMAIN method_queues : q \notin method_queues[m]
    /\ \A m \in DOMAIN method_queues : method_queues[m] # {}

Subscribed(q, m) == sub[q].pc = "open" /\ m \in MethodsOf(q)

Copies(data, n) == [i \in 1..n |-> data]

\* C7 as first stated: an event with method M goes exactly once on every queue
\* subscribed to M or to "*", and on no other queue.
C7_FanOutOncePerQueue ==
    [][ (RxStep /\ Head(ws_in).json = "object" /\ Head(ws_in).method # NoMethod) =>
           \A q \in Queues :
               queue'[q] = queue[q] \o
                   Copies(Head(ws_in),
                          IF Subscribed(q, Head(ws_in).method) \/ Subscribed(q, Wildcard)
                          THEN 1 ELSE 0) ]_vars

\* C7: an event with method M goes once on every queue subscribed to M and once on
\* every queue subscribed to "*" (twice, then, on a queue subscribed to both), and on
\* no other queue; a queue registered under several methods gets it once.
C7_FanOut ==
    [][ (RxStep /\ Head(ws_in).json = "object" /\ Head(ws_in).method # NoMethod) =>
           \A q \in Queues :
               queue'[q] = queue[q] \o
                   Copies(Head(ws_in),
                          (IF Subscribed(q, Head(ws_in).method) THEN 1 ELSE 0)
                          + (IF Subscribed(q, Wildcard) THEN 1 ELSE 0)) ]_vars

\* One event reached a queue registered under its method and "*" twice and a queue
\* registered under two methods once.
C7_Witness ==
    \E q, p \in Queues :
        /\ Len(rx_log) = 1 /\ rx_log[1].method = "A"
        /\ Subscribed(q, "A") /\ Subscribed(q, Wildcard)
        /\ queue[q] = <<rx_log[1], rx_log[1]>>
        /\ Subscribed(p, "A") /\ Subscribed(p, "B")
        /\ queue[p] = <<rx_log[1]>>

\* C8: a frame whose id an earlier frame already carried resolves nothing, does not
\* end the receive loop, and reaches subscription queues only if it has a method.
C8_LaterFrameSameIdIgnored ==
    [][ (/\ RxStep
         /\ Head(ws_in).json = "object"
         /\ Head(ws_in).id # NoId
         /\ \E i \in 1..Len(rx_log) : rx_log[i].id = Head(ws_in).id)
        => (/\ ~listening_stopped'
            /\ response' = response
            /\ Head(ws_in).method = NoMethod => queue' = queue) ]_vars

InProgress(s) == sender[s].pc \in {"ws_send", "wait"}

\* C9: _new_cmd_id never returns an id it returned before (the used set has as many
\* ids as were handed out, and each step that hands one out adds an id that was not
\* in it), no two sends in progress share an id, and the used set never loses an id.
C9_CommandIdsUnique ==
    /\ [](/\ Cardinality(used_cmd_ids) = n_issued
          /\ \A s, t \in Senders :
                (s # t /\ InProgress(s) /\ InProgress(t))
                    => sender[s].cmd_id # sender[t].cmd_id
          /\ DOMAIN cmd_futures \subseteq used_cmd_ids)
    /\ [][ /\ used_cmd_ids \subseteq used_cmd_ids'
           /\ n_issued' # n_issued =>
                 \E s \in Senders :
                     /\ sender'[s].pc = "ws_send"
                     /\ sender'[s].cmd_id \notin used_cmd_ids
                     /\ used_cmd_ids' = used_cmd_ids \cup {sender'[s].cmd_id} ]_vars

\* Both ids stay used after one send returned without awaiting and the other's slot
\* was removed.
C9_Witness ==
    \E s, t \in Senders :
        /\ sender[s].pc = "returned" /\ ~sender[s].await_response
        /\ Returned(t)
        /\ cmd_futures = <<>>
        /\ used_cmd_ids = {sender[s].cmd_id, sender[t].cmd_id}
        /\ n_issued = 2

\* The loop put the i-th frame it received on the queues: it was a JSON object and
\* the loop did not end on it.
FannedOut(i) ==
    /\ rx_log[i].json = "object"
    /\ ~(i = Len(rx_log) /\ msg_rx_task = "failed")

\* The frames the loop put on queue q from its i-th frame to its last-th, in the
\* order it processed them.
RECURSIVE Expected(_, _, _)
Expected(q, i, last) ==
    IF i > last THEN <<>>
    ELSE (IF FannedOut(i)
          THEN Copies(rx_log[i],
                      (IF rx_log[i].method \in MethodsOf(q) THEN 1 ELSE 0)
                      + (IF Wildcard \in MethodsOf(q) THEN 1 ELSE 0))
          ELSE <<>>)
         \o Expected(q, i + 1, last)

ExpectedOf(q) ==
    Expected(q, sub[q].opened_at + 1,
             IF sub[q].pc = "left" THEN sub[q].closed_at ELSE Len(rx_log))

\* C10: what was taken from a subscription's queue, followed by what it still holds,
\* is the matching frames in the order the receive loop processed them.
C10_QueueFifo ==
    \A q \in Queues : sub[q].got \o queue[q] = ExpectedOf(q)

\* A subscription to two methods took three events, the methods interleaved.
C10_Witness ==
    \E q \in Queues :
        /\ MethodsOf(q) = {"A", "B"}
        /\ Len(sub[q].got) = 3
        /\ sub[q].got[1].method = "A" /\ sub[q].got[2].method = "B"
        /\ sub[q].got[3].method = "A"
        /\ sub[q].got = rx_log

\* A send ended by raising after waiting for a reply that never reached it.
WokeWithoutReply(s) ==
    /\ sender[s].pc = "raised"
    /\ response[s] = NoFrame
    /\ sender[s].exc # "ConnectionClosed"

\* C11: a send awaiting its response when the receive task ends (connection closed,
\* failure in the loop, or cancellation by disconnect) does not stay blocked, and it
\* raises the task's exception when the task ended with one and ReceiveLoopStopped
\* otherwise.
C11_BlockedSendWakes ==
    /\ \A s \in Senders :
          (sender[s].pc = "wait" /\ TaskDone) ~> (sender[s].pc # "wait")
    /\ [](\A s \in Senders :
             WokeWithoutReply(s) =>
                 sender[s].exc = IF msg_rx_task = "failed" THEN rx_exception
                                 ELSE "ReceiveLoopStopped")

\* C12: a send awaiting a reply that never arrives, with the receive loop running,
\* does not wait for ever: it ends (with a timeout error, its slot removed).
C12_SendTimesOut ==
    \A s \in Senders :
        (sender[s].pc = "wait") ~>
            (sender[s].pc # "wait" /\ sender[s].cmd_id \notin DOMAIN cmd_futures)

\* C13: a consumer of subscribe() gets ReceiveLoopStopped only with listening_stopped
\* set and its queue drained: every event put on its queue was yielded to it.
C13_SubscribeDrains ==
    \A q \in Queues :
        consumer[q] = "raised" =>
            /\ listening_stopped
            /\ queue[q] = <<>>
            /\ sub[q].got = ExpectedOf(q)

\* C14: once disconnect() has returned, listening_cancelled is set, the receive task
\* was cancelled and the websocket closed, the cancellation before the close began.
C14_DisconnectDoesAllThree ==
    disc = "returned" =>
        /\ listening_cancelled
        /\ disc_log = <<"cancel", "close", "closed">>
        /\ ws = "closed"

\* C15: listening_stopped is set whenever the receive task has ended, whatever ended
\* it; it is not set while the loop runs; once set it stays set.
C15_StoppedIffTaskEnded ==
    /\ [](TaskDone => listening_stopped)
    /\ [](listening_stopped => TaskDone)
    /\ [][listening_stopped => listening_stopped']_vars

\* The first position of the log whose message is a requestWillBeSent of the target
\* frame (0 when there is none).
FirstRequestAt ==
    LET hits == { i \in 1..Len(frl_log) :
                    /\ frl_log[i].method = "Network.requestWillBeSent"
                    /\ frl_log[i].frameId = TargetFrame }
    IN  IF hits = {} THEN 0 ELSE CHOOSE i \in hits : \A j \in hits : i <= j

\* The first position after the capture whose message is a responseReceived for the
\* captured request (0 when there is none).
FirstResponseAt ==
    LET hits == { i \in 1..Len(frl_log) :
                    /\ FirstRequestAt # 0
                    /\ i > FirstRequestAt
                    /\ frl_log[i].method = "Network.responseReceived"
                    /\ frl_log[i].requestId = frl_log[FirstRequestAt].requestId }
    IN  IF hits = {} THEN 0 ELSE CHOOSE i \in hits : \A j \in hits : i <= j

\* C16: the listener holds the requestId of the first requestWillBeSent of its frame
\* and never another; it resolves with the response of the first responseReceived
\* for that requestId that follows, and with nothing else: requestWillBeSent of other
\* frames, responseReceived of other requests or before the capture change nothing.
C16_ListenerBindsFirstRequest ==
    /\ frl.request_id = IF FirstRequestAt = 0 THEN NoRequest
                        ELSE frl_log[FirstRequestAt].requestId
    /\ frl.task = "finished" <=> FirstResponseAt # 0
    /\ FirstResponseAt # 0 =>
          /\ FirstResponseAt = Len(frl_log)
          /\ frl.result = frl_log[FirstResponseAt].response
          /\ frl.response = frl.result
    /\ FirstResponseAt = 0 => frl.response = NoResponse /\ frl.result = NoResponse

\* The listener saw a response before any request, a request of another frame, its
\* request, a second request of its frame, that one's response, and resolved on the
\* response of the first.
C16_Witness ==
    /\ Len(frl_log) = 6
    /\ frl_log[1].method = "Network.responseReceived" /\ frl_log[1].requestId = "r1"
    /\ frl_log[2].method = "Network.requestWillBeSent" /\ frl_log[2].frameId = "G"
    /\ frl_log[3].method = "Network.requestWillBeSent"
    /\ frl_log[3].frameId = TargetFrame /\ frl_log[3].requestId = "r1"
    /\ frl_log[4].method = "Network.requestWillBeSent"
    /\ frl_log[4].frameId = TargetFrame /\ frl_log[4].requestId = "r2"
    /\ frl_log[5].method = "Network.responseReceived" /\ frl_log[5].requestId = "r2"
    /\ frl_log[6].method = "Network.responseReceived" /\ frl_log[6].requestId = "r1"
    /\ frl.task = "finished" /\ frl.result.status = 6


\* The browser did its part of an uneventful conversion: it answered Page.navigate
\* without errorText and then reported the main document's request, its response
\* with status 200 and the loaded event, it answered every command it was sent, found
\* no element waiting for cooperative loading, sent nothing malformed and kept the
\* connection open; the caller's timeout did not expire.
HappyBrowser ==
    /\ o_hist.reply_first /\ ~o_hist.error_text /\ ~o_hist.outer
    /\ chrome.stage = 3 /\ chrome.frame = TargetFrame /\ chrome.pending = {}
    /\ ~chrome.text /\ chrome.gone # "closed"
    /\ orch.loading_elements = {}
    /\ frl.task = "finished" => frl.result.status = 200

\* C17: when the browser answers Page.navigate and then reports requestWillBeSent,
\* responseReceived with status 200 and the loaded event, and answers the commands
\* that follow, get_pdf returns the data of the Page.printToPDF reply, however the
\* receive task and get_pdf interleave.
C17_HappyPathReturnsPdf ==
    (orch.pc = "done" /\ HappyBrowser) =>
        (orch.outcome = "pdf" /\ orch.data = PdfData)


\* The status of the main document's response is outside 200..299 and is not 304.
BadStatus(code) == code \notin 200..299 /\ code # 304

\* C18: whatever status the main document's response has, get_pdf raises
\* NavigationError carrying the response's url and that status, and never sends
\* Page.printToPDF, exactly when the status is outside 200..299 and is not 304; the
\* handler then answers 424 with failed_url the url and status_code the status.
C18_NavigationErrorOnBadStatus ==
    /\ [](orch.outcome = "NavigationError" =>
            /\ frl.task = "finished" /\ BadStatus(frl.result.status)
            /\ orch.error = [url |-> frl.result.url, code |-> frl.result.status]
            /\ "Page.printToPDF" \notin Range(o_hist.sent)
            /\ HttpResponse.status = 424
            /\ HttpResponse.failed_url = frl.result.url
            /\ HttpResponse.status_code = frl.result.status)
    /\ [][(orch.pc = "status" /\ orch'.pc # "status" /\ frl.task = "finished") =>
            (BadStatus(frl.result.status) <=> orch'.outcome = "NavigationError")]_vars

C18_Witness ==
    /\ orch.pc = "done" /\ orch.outcome = "NavigationError"
    /\ orch.error = [url |-> ResponseUrl, code |-> 300]
    /\ HttpResponse.status = 424


\* C19: when the reply to Page.navigate carries errorText, get_pdf raises
\* NavigationError as soon as send() has returned the reply: it does not wait for the
\* loaded event and never sends Page.printToPDF.
C19_ErrorTextRaises ==
    /\ [][(/\ orch.pc = "wait" /\ orch.cmd = "Page.navigate"
            /\ o_future.done /\ o_future.reply.errorText
            /\ orch'.pc # "wait") =>
            (orch'.pc = "done" /\ orch'.outcome = "NavigationError")]_vars
    /\ [](o_hist.error_text =>
            /\ ~o_queues.loaded.open
            /\ "Page.printToPDF" \notin Range(o_hist.sent))


\* C20: with elements waiting for cooperative loading, Page.printToPDF is sent only
\* when none is pending any more; a node leaves loading_elements only when an event
\* naming it, with name "value" and value "loaded", is consumed, and an event failing
\* one of the three tests removes nothing.
C20_PrintAfterEveryNodeLoaded ==
    /\ []("Page.printToPDF" \in Range(o_hist.sent) => orch.loading_elements = {})
    /\ [][orch.pc = "coop_get" =>
            LET m == Head(o_queues.attrib.items)
                matches == /\ m.nodeId \in orch.loading_elements
                           /\ m.name = "value" /\ m.value = "loaded"
            IN  orch'.loading_elements =
                    IF orch'.pc = "coop_check" /\ matches
                    THEN orch.loading_elements \ {m.nodeId}
                    ELSE orch.loading_elements]_vars
    /\ [][\A n \in orch.loading_elements \ orch'.loading_elements :
            n \in o_hist'.matched]_vars


\* C21: once the browser has stopped answering, the connection staying open, get_pdf
\* ends by itself: every wait it is in expires.
C21_EveryWaitBounded == (chrome.gone = "stalled") ~> (orch.pc = "done")


\* C22: when the reply to a command is larger than max_size, the send waiting for it
\* fails with PayloadTooBig and the handler answers 413.
C22_TooBigAnswered413 ==
    (orch.pc = "done" /\ o_hist.too_big) =>
        (orch.outcome = "cdp.PayloadTooBig" /\ HttpResponse.status = 413)


\* How a wait of the request expired: the three typed timeouts of get_pdf, and
\* asyncio.TimeoutError from a wait_for nothing translates.
TimeoutOutcomes ==
    {"PageLoadTimeout", "StatusTimeout", "PDFPrintTimeout", "asyncio.TimeoutError"}

\* C23: whichever wait of a request expires (page load, status, print, the wait for
\* a DOM.attributeModified event, or the handler's timeout over the whole of
\* get_pdf), the handler answers 504.
C23_TimeoutsAnswered504 ==
    (orch.pc = "done" /\ orch.outcome \in TimeoutOutcomes) => HttpResponse.status = 504


\* C24: a call whose try block ended (with the PDF or with an exception) and that the
\* caller did not cancel ends with what the try block ended with, whatever fails in
\* the finally block, and the tab-close call is issued even when disconnect() fails.
C24_FinalizerFailureSwallowed ==
    \A r \in Requests :
        (Done(r) /\ call[r].tried # "none" /\ ~call[r].timed_out) =>
            /\ call[r].outcome = call[r].tried
            /\ call[r].tab_id \in closed_tabs


\* C25: _cmd_futures holds exactly the ids of the sends in progress that await a
\* response: none of a send that ended, however it ended, none of a send that awaits
\* no response, and nothing when no send is in progress.
C25_SlotsOnlyWhileSending ==
    DOMAIN cmd_futures =
        { sender[s].cmd_id : s \in { t \in Senders :
                                       InProgress(t) /\ sender[t].await_response } }

\* One send was cancelled while waiting, another returned its reply, and the
\* directory is empty again.
C25_Witness ==
    /\ DOMAIN cmd_futures = {}
    /\ \E s, t \in Senders :
          /\ sender[s].pc = "raised" /\ sender[s].exc = "CancelledError"
          /\ sender[s].await_response
          /\ Returned(t)


\* C26: the listener's queue is registered before the receive loop dispatches any
\* frame the browser sent in reaction to Page.navigate: the main frame's
\* requestWillBeSent is never dispatched without the listener subscribed.
C26_ListenerArmedBeforeNavigate == arm.dropped = <<>>

\* The receive task's wake-up was queued ahead of get_pdf's, and the request's event
\* still reached the listener's queue.
C26_Witness ==
    /\ arm.early = "buffer_first"
    /\ arm.queue = <<"Network.requestWillBeSent">>
    /\ arm.emitted = MaxArmFrames


\* C27: a listener whose task has ended (response published, ReceiveLoopStopped, or
\* cancelled by the status wait's timeout) has its queue out of the method
\* directory, and so has every listener once its get_pdf has ended.
C27_ListenerUnsubscribed ==
    /\ frl.task # "pending" => ~o_queues.frl.open
    /\ orch.pc = "done" => ~o_queues.frl.open


\* C28: only a frame that carries a method is put on subscription queues: a frame
\* without one (a plain reply to a command) is put on no queue, the queues
\* registered under "*" included.
C28_OnlyMethodFramesEnqueued ==
    [][ (RxStep /\ Head(ws_in).json = "object" /\ Head(ws_in).method = NoMethod)
            => queue' = queue ]_vars


\* C29: a get_pdf cancelled by the caller's timeout at any await after its tab was
\* opened, the awaits of the finally block included, has had GET /json/close
\* issued for its tab by the time it ends.
C29_CancelledCallClosesTab ==
    \A r \in Requests :
        (Done(r) /\ call[r].timed_out /\ call[r].tab_id # NoTab)
            => call[r].tab_id \in closed_tabs


\* C30: the steps of a request happen in the order acquire, open tab, connect,
\* orchestrate, disconnect, close tab, release: a tab is opened only by a call
\* holding a permit, GET /json/close is issued only by a call whose disconnect has
\* just completed, and a call that opened a tab gives its permit back only by its
\* tab-close call completing.
C30_StepsInOrder ==
    [][ \A r \in Requests :
           /\ (call[r].tab_id = NoTab /\ call'[r].tab_id # NoTab)
                  => (r \in InFlight /\ SEMAPHORE < PDF_CONCURRENCY)
           /\ (call'[r].tab_id \in closed_tabs' \ closed_tabs)
                  => (call[r].pc = "ws_close" /\ call'[r].pc = "tab_close")
           /\ (r \in InFlight /\ Done(r)' /\ call[r].tab_id # NoTab)
                  => (/\ call[r].pc = "tab_close"
                      /\ call'[r].timed_out = call[r].timed_out
                      /\ call[r].tab_id \in closed_tabs) ]_vars


\* C31: a reply whose id has no slot in the directory (its command was sent with
\* await_response=False, or its send has already ended) resolves no send's future,
\* leaves the directory as it was and does not end the receive loop.
C31_UnregisteredReplyDropped ==
    [][ (/\ RxStep
         /\ Head(ws_in).json = "object"
         /\ Head(ws_in).id # NoId
         /\ Head(ws_in).id \notin DOMAIN cmd_futures)
        => (/\ response' = response
            /\ cmd_futures' = cmd_futures
            /\ msg_rx_task' = "pending"
            /\ ~listening_stopped') ]_vars

\* The receive loop has taken the reply to a command sent without await_response
\* and the reply to a send that was cancelled before it arrived, while it is still
\* running.
C31_Witness ==
    /\ msg_rx_task = "pending" /\ ~listening_stopped
    /\ Len(rx_log) = 2
    /\ \E s, t \in Senders :
          /\ sender[s].pc = "returned" /\ ~sender[s].await_response
          /\ sender[t].pc = "raised" /\ sender[t].exc = "CancelledError"
          /\ sender[t].await_response /\ response[t] = NoFrame
          /\ \E i, j \in 1..2 :
                /\ rx_log[i].id = sender[s].cmd_id
                /\ rx_log[j].id = sender[t].cmd_id
    /\ DOMAIN cmd_futures = {}


\* An error reply: a frame with a command's id and no "result".
ErrorReply(f) == f # NoFrame /\ f.json = "object" /\ f.id # NoId /\ f.result = NoResult

\* C32: an error reply to a command whose send awaits its response makes that send
\* raise (it neither returns a value nor stays suspended) and its slot leave the
\* directory; the receive loop keeps running, and the other sends' futures, the
\* other slots and the subscriptions are as they were.
C32_ErrorReplyEndsSend ==
    /\ [][ (/\ RxStep /\ ErrorReply(Head(ws_in))
            /\ SlotOf(Head(ws_in).id) # NoSender
            /\ response[SlotOf(Head(ws_in).id)] = NoFrame)
           => (/\ msg_rx_task' = "pending" /\ ~listening_stopped'
               /\ response' = [response EXCEPT ![SlotOf(Head(ws_in).id)] = Head(ws_in)]
               /\ cmd_futures' = cmd_futures
               /\ method_queues' = method_queues /\ sub' = sub
               /\ sender' = sender) ]_vars
    /\ [][ \A s \in Senders :
             (/\ sender[s].pc = "wait" /\ ErrorReply(response[s])
              /\ sender'[s] # sender[s])
             => (/\ sender'[s].pc = "raised" /\ sender'[s].ret = NoResult
                 /\ sender'[s].cmd_id \notin DOMAIN cmd_futures'
                 /\ \A k \in DOMAIN cmd_futures \ {sender[s].cmd_id} :
                        k \in DOMAIN cmd_futures' /\ cmd_futures'[k] = cmd_futures[k]
                 /\ \A t \in Senders \ {s} : sender'[t] = sender[t]
                 /\ msg_rx_task' = msg_rx_task
                 /\ listening_stopped' = listening_stopped) ]_vars
    /\ \A s \in Senders :
          (sender[s].pc = "wait" /\ ErrorReply(response[s])) ~> (sender[s].pc = "raised")

\* A send ended with KeyError on an error reply, its slot is gone, and the receive
\* loop went on to deliver the other send's reply, which that send returned.
C32_Witness ==
    /\ msg_rx_task = "pending" /\ ~listening_stopped
    /\ DOMAIN cmd_futures = {}
    /\ \E s, t \in Senders :
          /\ sender[s].pc = "raised" /\ sender[s].exc = "KeyError"
          /\ ErrorReply(response[s]) /\ response[s].seq = 1
          /\ Returned(t) /\ response[t].seq = 2 /\ sender[t].ret = response[t].result

====
